---------------------------- MODULE Spec2Model ----------------------------
(***************************************************************************)
(* A model of the KnowledgeLink frontend (React): the api client of        *)
(* api/links.js, the two root components App.jsx and MainApp.jsx with the  *)
(* child components SearchBar, SearchResults, AddLinkModal, LinkForm,      *)
(* LinksSidebar and the AuthProvider context.                              *)
(*                                                                         *)
(* One action of the model is one run of JavaScript to completion: an      *)
(* event handler up to its first await of a network request, or the        *)
(* continuation of a handler when its request settles.  React state is     *)
(* the state of the model; rendering is a function of it.                  *)
(***************************************************************************)
EXTENDS Integers, Sequences, FiniteSets, TLC

(***************************************************************************)
(* Bounds of the model.                                                    *)
(***************************************************************************)
MaxQueryLen == 2      \* longest text typed into the search box
MaxLinks == 2         \* longest list of links kept
MaxInFlight == 1      \* concurrent requests of one handler, where the UI allows several
MaxFieldLen == 4      \* longest text typed into the tags field (SpecTags)
MaxResults == 2       \* longest SearchResult sequence rendered (SpecRender)
MaxChunks == 3        \* most matching chunks of one result (SpecRender)
ScoreDen == 40        \* scores are the fractions k/ScoreDen, k in 0..ScoreDen
MaxSubmitted == 2     \* links submitted to the backend (SpecIngest)
MaxScanned == 1       \* links submitted to the backend (SpecScan, SpecIngestFair)
MaxStored == 3        \* links the vector store holds (SpecSearch)
MaxDeleting == 3      \* onDelete calls of LinkList awaiting their settlement
MaxScore == 2         \* similarity scores are the fractions k/MaxScore (backend)

(***************************************************************************)
(* JavaScript values.  A value that may be null or undefined is a tagged   *)
(* record; a text that is always a string (the search box, the tags        *)
(* field) is a sequence of characters, so that trim and split act on it.   *)
(***************************************************************************)
Undefined == [type |-> "undefined"]
Null == [type |-> "null"]
Str(s) == [type |-> "string", v |-> s]
Rat(n, d) == [type |-> "number", num |-> n, den |-> d]
Num(n) == Rat(n, 1)
Bool(b) == [type |-> "boolean", v |-> b]
Arr(items) == [type |-> "array", items |-> items]
User(id) == [type |-> "object", id |-> Str(id)]

\* ToBoolean of a tagged value: undefined, null, "" and 0 are falsy; arrays
\* and objects (the empty array included) are truthy.
JsTruthy(v) ==
  CASE v.type \in {"undefined", "null"} -> FALSE
    [] v.type = "string" -> v.v # ""
    [] v.type = "number" -> v.num # 0
    [] v.type = "boolean" -> v.v
    [] OTHER -> TRUE

\* a || b
JsOr(a, b) == IF JsTruthy(a) THEN a ELSE b

\* A default parameter value applies to an omitted or undefined argument only.
DefaultArg(arg, dflt) == IF arg = Undefined THEN dflt ELSE arg

\* obj?.id
OptId(obj) == IF obj.type \in {"undefined", "null"} THEN Undefined ELSE obj.id

(***************************************************************************)
(* Texts: sequences of characters.                                         *)
(***************************************************************************)
Whitespace == {" "}

RECURSIVE TrimStart(_)
TrimStart(s) ==
  IF s # <<>> /\ Head(s) \in Whitespace THEN TrimStart(Tail(s)) ELSE s

RECURSIVE TrimEnd(_)
TrimEnd(s) ==
  IF s # <<>> /\ s[Len(s)] \in Whitespace
  THEN TrimEnd(SubSeq(s, 1, Len(s) - 1))
  ELSE s

\* String.prototype.trim
Trim(s) == TrimEnd(TrimStart(s))

\* ToBoolean of a text: the empty string is falsy.
TextTruthy(s) == s # <<>>

\* All texts over alphabet of length at most n.
RECURSIVE TextsUpTo(_, _)
TextsUpTo(alphabet, n) ==
  IF n = 0 THEN {<<>>}
  ELSE LET shorter == TextsUpTo(alphabet, n - 1)
       IN shorter \cup {Append(s, c) : s \in {t \in shorter : Len(t) = n - 1},
                                       c \in alphabet}


QueryAlphabet == {" ", "a"}
Queries == TextsUpTo(QueryAlphabet, MaxQueryLen)

(***************************************************************************)
(* State.                                                                  *)
(***************************************************************************)
VARIABLES
  root,        \* the root component mounted on the page: "App" or "MainApp"
  mounted,     \* whether the root's mount effects have run
  token,       \* localStorage.getItem('token')
  urlToken,    \* the token parameter of window.location.search
  nav,         \* the navigation started by assigning window.location.href
  app,         \* useState of App
  main,        \* useState of MainApp
  auth,        \* useState of AuthProvider
  searchBar,   \* useState of SearchBar
  modal,       \* useState of AddLinkModal
  sidebar,     \* useState of LinksSidebar
  axiosAuth,   \* axios.defaults.headers.common['Authorization']
  linkForm,    \* useState of LinkForm
  linkList,    \* useState of LinkList, and its onDelete calls not yet settled
  submitted,   \* history: the processedData LinkForm last passed to onSubmit
  view,        \* what SearchResults returned when it was last rendered
  pending,     \* the requests awaiting their response, per awaiting handler
  dbLinks,     \* backend: the Link records, by link id
  vectorStore, \* backend: the chunks the Vector Store holds, by link id
  ingest,      \* backend: the invocation of the Ingestion Pipeline, by link id
  scan,        \* backend: the scan of the Vector Store under way
  retrieved,   \* backend: what the Retrieval Engine returned last
  input,       \* history: what the user or the server gave the last step
  calls,       \* history: the functions entered by the last step, in order
  sent         \* history: the requests sent by the last step, in order

\* The state of the components that neither root mounts in the page
\* specifications.
backend == <<dbLinks, vectorStore, ingest, scan, retrieved>>

apart == <<linkForm, linkList, submitted, view, backend>>

vars == <<root, mounted, token, urlToken, nav, app, main, auth, searchBar,
          modal, sidebar, axiosAuth, pending, input, calls, sent, apart>>

(***************************************************************************)
(* api/links.js: the axios client and its interceptors.                    *)
(***************************************************************************)
DefaultLimit == 10

\* similarity_threshold = 0.7
DefaultThreshold == Rat(7, 10)

Bearer(tok) == [type |-> "string", scheme |-> "Bearer", credentials |-> tok.v]

\* The request interceptor: the Authorization header of a request sent while
\* localStorage holds tok.
Authorization(tok) == IF JsTruthy(tok) THEN Bearer(tok) ELSE Undefined

ApiRequest(tok, method, url, params) ==
  [method |-> method, url |-> url, params |-> params,
   authorization |-> Authorization(tok)]

\* The response interceptor, on an error with HTTP status `status` (0: no
\* response at all): what it leaves in localStorage and in location.href.
Unauthorized(status) == status = 401
\* A response interceptor that leaves the token where it is.
TokenKeptAfterError(status, tok) == tok

TokenAfterError(status, tok) == IF Unauthorized(status) THEN Null ELSE tok
NavAfterError(status, n) == IF Unauthorized(status) THEN "/" ELSE n

\* if (user_id) params.user_id = user_id
WithUserId(params, user_id) ==
  IF JsTruthy(user_id) THEN params @@ [user_id |-> user_id] ELSE params

LinksAPI_getLinks(tok, skipArg, limitArg, userIdArg) ==
  LET skip == DefaultArg(skipArg, Num(0))
      limit == DefaultArg(limitArg, Num(100))
      user_id == DefaultArg(userIdArg, Null)
  IN ApiRequest(tok, "GET", "/link/links",
                WithUserId([skip |-> skip, limit |-> limit], user_id))

\* linksAPI.searchLinks without default parameter values.
LinksAPI_searchLinksNoDefaults(tok, query, limitArg, thresholdArg, userIdArg) ==
  ApiRequest(tok, "GET", "/link/search",
             WithUserId([q |-> query, limit |-> limitArg,
                         similarity_threshold |-> thresholdArg],
                        userIdArg))

LinksAPI_searchLinks(tok, query, limitArg, thresholdArg, userIdArg) ==
  LET limit == DefaultArg(limitArg, Num(DefaultLimit))
      similarity_threshold == DefaultArg(thresholdArg, DefaultThreshold)
      user_id == DefaultArg(userIdArg, Null)
  IN ApiRequest(tok, "GET", "/link/search",
                WithUserId([q |-> query, limit |-> limit,
                            similarity_threshold |-> similarity_threshold],
                           user_id))

LinksAPI_createLink(tok, linkData) ==
  ApiRequest(tok, "POST", "/link/links", linkData)

AuthAPI_getCurrentUser(tok) == ApiRequest(tok, "GET", "/user/me", <<>>)

AuthAPI_logout(tok) == ApiRequest(tok, "POST", "/user/logout", <<>>)

\* The wrappers exported for backwards compatibility.
FetchLinksWrapper(tok) ==
  LinksAPI_getLinks(tok, Undefined, Undefined, Undefined)

SearchLinksWrapper(tok, query, limitArg) ==
  LinksAPI_searchLinks(tok, query, limitArg, Undefined, Undefined)

(***************************************************************************)
(* What the server may answer.  A failure is the HTTP status (0: no        *)
(* response) and the message property of the value the api function        *)
(* throws, error.response?.data || error.                                  *)
(***************************************************************************)
Failures ==
  {[status |-> 0, message |-> Str("Network Error")],
   [status |-> 401, message |-> Undefined],
   [status |-> 500, message |-> Str("")]}

UserIds == {"u1"}
LinkIds == {"L1", "L2"}
Link(id) == [_id |-> id]

\* Lists of links without repetition, as the server lists them.
LinkLists ==
  {[i \in 1..Len(ids) |-> Link(ids[i])] :
     ids \in {t \in TextsUpTo(LinkIds, MaxLinks) :
                \A i, j \in 1..Len(t) : i # j => t[i] # t[j]}}

Chunk(text, score) == [text |-> text, score |-> score]
SearchResult(link_id, score, chunks) ==
  [link_id |-> link_id, score |-> score, matching_chunks |-> Arr(chunks)]

\* The answers to a search in the page model: no result, or one.
SearchResponses ==
  {<<>>, <<SearchResult("L1", ScoreDen, <<Chunk("t1", ScoreDen)>>)>>}


(***************************************************************************)
(* The backend (ingestion pipeline, vector store, retrieval engine), which *)
(* is described by the specification only: its data.                       *)
(***************************************************************************)
StoreIds == 1..MaxStored
SubmittedIds == 1..MaxSubmitted
ScannedIds == 1..MaxScanned

\* The owner of a link is optional: NoOwner is the absent owner, and the
\* absent owner_filter of a global search.
NoOwner == "none"
Owners == {"u1", "u2"}

\* A Link record; a link id never submitted has none, and a deleted link has
\* vanished.
LinkRecord(owner, created_at, status) ==
  [owner |-> owner, created_at |-> created_at, status |-> status]
Absent == [status |-> "absent"]
Vanished == [status |-> "deleted"]
LinkExists(rec) == rec.status \notin {"absent", "deleted"}
Terminal == {"ready", "failed"}

\* A Chunk of the store: its text and its embedding, which is represented
\* by the similarity score it has to the query searched for, k/MaxScore.
StoredChunk(text, score) == [text |-> text, score |-> score]

\* What the store holds for a link id: the owner and the chunks last put.
StoreEntry(owner, chunks) == [owner |-> owner, chunks |-> chunks]
NoEntry == StoreEntry(NoOwner, <<>>)

\* No pipeline invocation for the link.
IdleJob == [pc |-> "idle", text |-> <<>>]

\* No scan under way.
NoScan ==
  [active |-> FALSE, owner_filter |-> NoOwner, cursor |-> 0, yielded |-> <<>>,
   complete |-> [id \in StoreIds |-> {}]]

\* No search answered yet.
NoRetrieved ==
  [searched |-> FALSE, owner_filter |-> NoOwner, limit |-> 0,
   similarity_threshold |-> 0, results |-> <<>>]

BackendConstructed ==
  /\ dbLinks = [id \in StoreIds |-> Absent]
  /\ vectorStore = [id \in StoreIds |-> NoEntry]
  /\ ingest = [id \in StoreIds |-> IdleJob]
  /\ scan = NoScan
  /\ retrieved = NoRetrieved

(***************************************************************************)
(* The state of each component as constructed (its useState initial        *)
(* values).                                                                *)
(***************************************************************************)
AppConstructed ==
  [links |-> <<>>, searchResults |-> Null, searchQuery |-> <<>>,
   loading |-> FALSE, searchLoading |-> FALSE, loadingLinks |-> TRUE,
   message |-> Null, searchError |-> Null, isAddModalOpen |-> FALSE,
   isSidebarOpen |-> FALSE, currentUser |-> Null]

MainConstructed ==
  [links |-> <<>>, searchResults |-> Arr(<<>>), isSearching |-> FALSE,
   loading |-> FALSE, error |-> Null, searchQuery |-> <<>>,
   isModalOpen |-> FALSE, isSidebarOpen |-> FALSE]

AuthConstructed(tok) == [user |-> Null, loading |-> TRUE, token |-> tok]

SearchBarConstructed == [query |-> <<>>, isSearching |-> FALSE]

EmptyForm == [url |-> <<>>, tags |-> <<>>]
NoErrors == [url |-> Undefined, submit |-> Undefined]
ModalConstructed == [formData |-> EmptyForm, errors |-> NoErrors]

SidebarConstructed == [deletingId |-> Null]

\* LinkList: useState(null), the links prop, and no onDelete call made yet.
LinkListConstructed == [deletingId |-> Null, links |-> <<>>, deleting |-> <<>>]

LinkFormConstructed == [formData |-> EmptyForm, errors |-> NoErrors]

\* Nothing rendered yet.
NoView == [panel |-> "unrendered"]

NoPending ==
  [checkAuth |-> FALSE, fetchLinks |-> FALSE, search |-> FALSE,
   add |-> <<>>, logout |-> 0, linkForm |-> FALSE]

NoInput == <<>>

Init ==
  /\ root \in {"App", "MainApp"}
  /\ mounted = {}
  /\ token \in {Null, Str("t0")}
  /\ urlToken \in {Null, Str("t1")}
  /\ nav = "none"
  /\ app = AppConstructed
  /\ main = MainConstructed
  /\ auth = AuthConstructed(token)
  /\ searchBar = SearchBarConstructed
  /\ modal = ModalConstructed
  /\ sidebar = SidebarConstructed
  /\ axiosAuth = Undefined
  /\ pending = NoPending
  /\ linkForm = LinkFormConstructed
  /\ submitted = NoInput
  /\ view = NoView
  /\ linkList = LinkListConstructed
  /\ BackendConstructed
  /\ input = NoInput
  /\ calls = <<>>
  /\ sent = <<>>

\* showMessage(text, type): the message it sets (cleared 5 s later by a timer).
Message(text, kind) == [type |-> "object", text |-> text, kind |-> kind]

(***************************************************************************)
(* App.jsx                                                                 *)
(***************************************************************************)
\* useEffect(..., []): handleOAuthCallback, checkAuth(), fetchLinks().
AppMount ==
  /\ root = "App" /\ mounted = {}
  /\ input' = NoInput
  /\ UNCHANGED apart
  /\ mounted' = {"App"}
  /\ token' = IF JsTruthy(urlToken) THEN urlToken ELSE token
  /\ urlToken' = Null
  /\ app' = [app EXCEPT
       !.message = IF JsTruthy(urlToken)
                   THEN Message("Successfully logged in!", "success") ELSE @,
       !.loadingLinks = TRUE]
  /\ pending' = [pending EXCEPT !.checkAuth = TRUE, !.fetchLinks = TRUE]
  /\ calls' = <<"App.useEffect", "authAPI.handleOAuthCallback", "App.checkAuth",
                "authAPI.getCurrentUser", "App.fetchLinks", "linksAPI.getLinks">>
  /\ sent' = <<AuthAPI_getCurrentUser(token'),
               LinksAPI_getLinks(token', Num(0), Num(100), OptId(app.currentUser))>>
  /\ UNCHANGED <<root, nav, main, auth, searchBar, modal, sidebar, axiosAuth>>

\* checkAuth, after getCurrentUser resolved with the user.
CheckAuthResolve(id) ==
  /\ root = "App" /\ pending.checkAuth
  /\ input' = [user |-> id]
  /\ UNCHANGED apart
  /\ pending' = [pending EXCEPT !.checkAuth = FALSE]
  /\ app' = [app EXCEPT !.currentUser = User(id)]
  /\ calls' = <<"App.checkAuth">>
  /\ sent' = <<>>
  /\ UNCHANGED <<root, mounted, token, urlToken, nav, main, auth, searchBar,
                 modal, sidebar, axiosAuth>>

\* checkAuth, after getCurrentUser rejected: the error is only logged.
CheckAuthReject(f) ==
  /\ root = "App" /\ pending.checkAuth
  /\ input' = [failure |-> f]
  /\ UNCHANGED apart
  /\ pending' = [pending EXCEPT !.checkAuth = FALSE]
  /\ token' = TokenAfterError(f.status, token)
  /\ nav' = NavAfterError(f.status, nav)
  /\ calls' = <<"api.interceptors.response", "App.checkAuth">>
  /\ sent' = <<>>
  /\ UNCHANGED <<root, mounted, urlToken, app, main, auth, searchBar, modal,
                 sidebar, axiosAuth>>

\* fetchLinks, after getLinks resolved.
FetchLinksResolve(data) ==
  /\ root = "App" /\ pending.fetchLinks
  /\ input' = [data |-> data]
  /\ UNCHANGED apart
  /\ pending' = [pending EXCEPT !.fetchLinks = FALSE]
  /\ app' = [app EXCEPT !.links = data, !.loadingLinks = FALSE]
  /\ calls' = <<"App.fetchLinks">>
  /\ sent' = <<>>
  /\ UNCHANGED <<root, mounted, token, urlToken, nav, main, auth, searchBar,
                 modal, sidebar, axiosAuth>>

\* fetchLinks, after getLinks rejected.
FetchLinksReject(f) ==
  /\ root = "App" /\ pending.fetchLinks
  /\ input' = [failure |-> f]
  /\ UNCHANGED apart
  /\ pending' = [pending EXCEPT !.fetchLinks = FALSE]
  /\ token' = TokenAfterError(f.status, token)
  /\ nav' = NavAfterError(f.status, nav)
  /\ app' = [app EXCEPT !.message = Message("Failed to fetch links", "error"),
                        !.loadingLinks = FALSE]
  /\ calls' = <<"api.interceptors.response", "App.fetchLinks">>
  /\ sent' = <<>>
  /\ UNCHANGED <<root, mounted, urlToken, main, auth, searchBar, modal,
                 sidebar, axiosAuth>>

\* if (!query.trim()) return;
AppSearchRejects(query) == ~TextTruthy(Trim(query))

\* The user id handleSearch passes: currentUser?.id
AppSearchUserId == OptId(app.currentUser)

\* handleSearch(query) up to its await: the request it sends.
AppSearchRequest(query) ==
  LinksAPI_searchLinks(token, query, Num(10), Rat(7, 10), AppSearchUserId)

\* handleSearch(query), called by SearchBar.handleSubmit, up to its await.
AppHandleSearch(query) ==
  IF AppSearchRejects(query)
  THEN /\ calls' = <<"SearchBar.handleSubmit", "App.handleSearch">>
       /\ sent' = <<>>
       /\ UNCHANGED <<app, pending>>
  ELSE /\ app' = [app EXCEPT !.searchQuery = query, !.searchLoading = TRUE,
                             !.searchError = Null, !.searchResults = Null]
       /\ pending' = [pending EXCEPT !.search = TRUE]
       /\ calls' = <<"SearchBar.handleSubmit", "App.handleSearch",
                     "linksAPI.searchLinks">>
       /\ sent' = <<AppSearchRequest(query)>>

\* AppSearchErrorText without the fallback: setSearchError(error.message)
AppSearchErrorTextNoFallback(f) == f.message

\* setSearchError(error.message || 'Failed to search. Please try again.')
AppSearchErrorText(f) ==
  JsOr(f.message, Str("Failed to search. Please try again."))

\* handleSearch after searchLinks resolved with results, up to its return.
AppSearchResolved(results) ==
  app' = [app EXCEPT
    !.searchResults = Arr(results),
    !.message = IF Len(results) = 0
                THEN Message("No results found. Try adding more links to your knowledge base.", "info")
                ELSE @,
    !.searchLoading = FALSE]

\* handleSearch after searchLinks rejected, up to its return.
AppSearchRejected(f) ==
  app' = [app EXCEPT
    !.searchError = AppSearchErrorText(f),
    !.message = Message("Search failed. Please try again.", "error"),
    !.searchLoading = FALSE]


(***************************************************************************)
(* MainApp.jsx                                                             *)
(***************************************************************************)
\* useEffect(() => { loadLinks(); }, []): loadLinks up to its await.
MainMount ==
  /\ root = "MainApp" /\ mounted = {"AuthProvider"}
  /\ input' = NoInput
  /\ UNCHANGED apart
  /\ mounted' = {"AuthProvider", "MainApp"}
  /\ main' = [main EXCEPT !.loading = TRUE, !.error = Null]
  /\ pending' = [pending EXCEPT !.fetchLinks = TRUE]
  /\ calls' = <<"MainApp.useEffect", "MainApp.loadLinks", "fetchLinks",
                "linksAPI.getLinks">>
  /\ sent' = <<FetchLinksWrapper(token)>>
  /\ UNCHANGED <<root, token, urlToken, nav, app, auth, searchBar, modal,
                 sidebar, axiosAuth>>

\* loadLinks, after fetchLinks resolved.
LoadLinksResolve(data) ==
  /\ root = "MainApp" /\ pending.fetchLinks
  /\ input' = [data |-> data]
  /\ UNCHANGED apart
  /\ pending' = [pending EXCEPT !.fetchLinks = FALSE]
  /\ main' = [main EXCEPT !.links = data, !.loading = FALSE]
  /\ calls' = <<"MainApp.loadLinks">>
  /\ sent' = <<>>
  /\ UNCHANGED <<root, mounted, token, urlToken, nav, app, auth, searchBar,
                 modal, sidebar, axiosAuth>>

\* loadLinks, after fetchLinks rejected.
LoadLinksReject(f) ==
  /\ root = "MainApp" /\ pending.fetchLinks
  /\ input' = [failure |-> f]
  /\ UNCHANGED apart
  /\ pending' = [pending EXCEPT !.fetchLinks = FALSE]
  /\ token' = TokenAfterError(f.status, token)
  /\ nav' = NavAfterError(f.status, nav)
  /\ main' = [main EXCEPT
       !.error = Str("Failed to load links. Please try again."),
       !.loading = FALSE]
  /\ calls' = <<"api.interceptors.response", "MainApp.loadLinks.catch">>
  /\ sent' = <<>>
  /\ UNCHANGED <<root, mounted, urlToken, app, auth, searchBar, modal,
                 sidebar, axiosAuth>>

\* if (!query.trim()) { ...; return; }
MainSearchRejects(query) == ~TextTruthy(Trim(query))

\* handleSearch(query) up to its await: the request it sends, searchLinks(query).
MainSearchRequest(query) == SearchLinksWrapper(token, query, Undefined)

\* handleSearch(query), called by SearchBar.handleSubmit, up to its await.
MainHandleSearch(query) ==
  IF MainSearchRejects(query)
  THEN /\ main' = [main EXCEPT !.isSearching = FALSE,
                               !.searchResults = Arr(<<>>),
                               !.searchQuery = <<>>]
       /\ calls' = <<"SearchBar.handleSubmit", "MainApp.handleSearch">>
       /\ sent' = <<>>
       /\ UNCHANGED pending
  ELSE /\ main' = [main EXCEPT !.isSearching = TRUE, !.searchQuery = query,
                               !.loading = TRUE, !.error = Null]
       /\ pending' = [pending EXCEPT !.search = TRUE]
       /\ calls' = <<"SearchBar.handleSubmit", "MainApp.handleSearch",
                     "searchLinks", "linksAPI.searchLinks">>
       /\ sent' = <<MainSearchRequest(query)>>

\* handleSearch after searchLinks resolved with results, up to its return.
MainSearchResolved(results) ==
  main' = [main EXCEPT !.searchResults = Arr(results), !.loading = FALSE]

\* handleSearch after searchLinks rejected, up to its return.
MainSearchRejected(f) ==
  main' = [main EXCEPT !.error = Str("Search failed. Please try again."),
                       !.searchResults = Arr(<<>>),
                       !.loading = FALSE]

\* handleClearSearch
MainClearSearch ==
  /\ root = "MainApp" /\ "MainApp" \in mounted
  /\ input' = NoInput
  /\ UNCHANGED apart
  /\ main.isSearching
  /\ main' = [main EXCEPT !.isSearching = FALSE, !.searchResults = Arr(<<>>),
                          !.searchQuery = <<>>]
  /\ calls' = <<"MainApp.handleClearSearch">>
  /\ sent' = <<>>
  /\ UNCHANGED <<root, mounted, token, urlToken, nav, app, auth, searchBar,
                 modal, sidebar, axiosAuth, pending>>

\* The × button of the error banner: setError(null).
MainDismissError ==
  /\ root = "MainApp" /\ "MainApp" \in mounted
  /\ input' = NoInput
  /\ UNCHANGED apart
  /\ JsTruthy(main.error)
  /\ main' = [main EXCEPT !.error = Null]
  /\ calls' = <<"MainApp.setError">>
  /\ sent' = <<>>
  /\ UNCHANGED <<root, mounted, token, urlToken, nav, app, auth, searchBar,
                 modal, sidebar, axiosAuth, pending>>

(***************************************************************************)
(* SearchBar.jsx                                                           *)
(***************************************************************************)
RootMounted == root \in mounted

\* What one keystroke in the input makes of its value: a character typed at
\* the end, or the last character deleted.
Keystroke(old, new) ==
  \/ Len(new) = Len(old) + 1 /\ SubSeq(new, 1, Len(old)) = old
  \/ Len(old) = Len(new) + 1 /\ SubSeq(old, 1, Len(new)) = new

\* onChange of the input, which is disabled while isSearching.
SearchBarChange(q) ==
  /\ RootMounted
  /\ input' = [query |-> q]
  /\ UNCHANGED apart
  /\ ~searchBar.isSearching
  /\ Keystroke(searchBar.query, q)
  /\ searchBar' = [searchBar EXCEPT !.query = q]
  /\ calls' = <<"SearchBar.setQuery">>
  /\ sent' = <<>>
  /\ UNCHANGED <<root, mounted, token, urlToken, nav, app, main, auth, modal,
                 sidebar, axiosAuth, pending>>

\* SearchBarRejects without the test of isSearching: if (!query.trim()) return;
SearchBarRejectsBlankOnly(query, isSearching) == ~TextTruthy(Trim(query))

\* SearchBarRejects without the trim: if (!query || isSearching) return;
SearchBarRejectsUntrimmed(query, isSearching) == ~TextTruthy(query) \/ isSearching

\* if (!query.trim() || isSearching) return;
SearchBarRejects(query, isSearching) == ~TextTruthy(Trim(query)) \/ isSearching

\* handleSubmit (the form's submit, or Enter in the input) up to its await of
\* onSearch(query).
SearchBarSubmit ==
  /\ RootMounted
  /\ input' = [query |-> searchBar.query]
  /\ UNCHANGED apart
  /\ IF SearchBarRejects(searchBar.query, searchBar.isSearching)
     THEN /\ calls' = <<"SearchBar.handleSubmit">>
          /\ sent' = <<>>
          /\ UNCHANGED <<searchBar, app, main, pending>>
     ELSE /\ searchBar' = [searchBar EXCEPT !.isSearching = TRUE]
          /\ IF root = "App"
             THEN AppHandleSearch(searchBar.query) /\ UNCHANGED main
             ELSE MainHandleSearch(searchBar.query) /\ UNCHANGED app
  /\ UNCHANGED <<root, mounted, token, urlToken, nav, auth, modal, sidebar,
                 axiosAuth>>

\* The search request resolves: onSearch returns, then handleSubmit's finally.
SearchResolve(results) ==
  /\ pending.search
  /\ input' = [results |-> results]
  /\ UNCHANGED apart
  /\ pending' = [pending EXCEPT !.search = FALSE]
  /\ IF root = "App"
     THEN /\ AppSearchResolved(results)
          /\ calls' = <<"App.handleSearch.resolved", "SearchBar.handleSubmit.finally">>
          /\ UNCHANGED main
     ELSE /\ MainSearchResolved(results)
          /\ calls' = <<"MainApp.handleSearch.resolved", "SearchBar.handleSubmit.finally">>
          /\ UNCHANGED app
  /\ searchBar' = [searchBar EXCEPT !.isSearching = FALSE]
  /\ sent' = <<>>
  /\ UNCHANGED <<root, mounted, token, urlToken, nav, auth, modal, sidebar,
                 axiosAuth>>

\* The search request fails: the response interceptor, the catch of
\* handleSearch, then handleSubmit's finally.
SearchReject(f) ==
  /\ pending.search
  /\ input' = [failure |-> f]
  /\ UNCHANGED apart
  /\ pending' = [pending EXCEPT !.search = FALSE]
  /\ token' = TokenAfterError(f.status, token)
  /\ nav' = NavAfterError(f.status, nav)
  /\ IF root = "App"
     THEN /\ AppSearchRejected(f)
          /\ calls' = <<"api.interceptors.response", "App.handleSearch.catch",
                        "SearchBar.handleSubmit.finally">>
          /\ UNCHANGED main
     ELSE /\ MainSearchRejected(f)
          /\ calls' = <<"api.interceptors.response", "MainApp.handleSearch.catch",
                        "SearchBar.handleSubmit.finally">>
          /\ UNCHANGED app
  /\ searchBar' = [searchBar EXCEPT !.isSearching = FALSE]
  /\ sent' = <<>>
  /\ UNCHANGED <<root, mounted, urlToken, auth, modal, sidebar, axiosAuth>>

(***************************************************************************)
(* SearchResults.jsx: which panel the component returns.                   *)
(***************************************************************************)
\* SearchResultsPanel testing for an empty list before it tests for an error.
SearchResultsPanelEmptyFirst(results, loading, error, query) ==
  IF JsTruthy(loading) THEN "search-loading"
  ELSE IF ~JsTruthy(results) \/ Len(results.items) = 0
       THEN IF TextTruthy(query) THEN "no-results" ELSE "null"
  ELSE IF JsTruthy(error) THEN "search-error"
  ELSE "results-list"

SearchResultsPanel(results, loading, error, query) ==
  IF JsTruthy(loading) THEN "search-loading"
  ELSE IF JsTruthy(error) THEN "search-error"
  ELSE IF ~JsTruthy(results) \/ Len(results.items) = 0
       THEN IF TextTruthy(query) THEN "no-results" ELSE "null"
  ELSE "results-list"

\* App: {(searchResults || searchLoading || searchError) && <SearchResults .../>}
AppRendersSearchResults ==
  JsTruthy(app.searchResults) \/ app.searchLoading \/ JsTruthy(app.searchError)

AppPanel ==
  IF AppRendersSearchResults
  THEN SearchResultsPanel(app.searchResults, Bool(app.searchLoading),
                          app.searchError, app.searchQuery)
  ELSE "null"

\* App: {!searchResults && !searchLoading && !searchError && <welcome-section>}
AppRendersWelcome ==
  ~JsTruthy(app.searchResults) /\ ~app.searchLoading /\ ~JsTruthy(app.searchError)

\* MainApp: {error && <div className="error-message">}
MainRendersError == JsTruthy(main.error)

\* MainApp: {isSearching && ... {!loading && <SearchResults results query/>}}
MainPanel ==
  IF main.isSearching /\ ~main.loading
  THEN SearchResultsPanel(main.searchResults, Undefined, Undefined,
                          main.searchQuery)
  ELSE "null"


(***************************************************************************)
(* AddLinkModal.jsx and LinkForm.jsx                                       *)
(***************************************************************************)
\* String.prototype.split(sep) for a one-character separator.
RECURSIVE Split(_, _)
Split(s, sep) ==
  IF \A i \in 1..Len(s) : s[i] # sep
  THEN <<s>>
  ELSE LET i == CHOOSE k \in 1..Len(s) :
                  s[k] = sep /\ \A j \in 1..(k - 1) : s[j] # sep
       IN <<SubSeq(s, 1, i - 1)>> \o Split(SubSeq(s, i + 1, Len(s)), sep)

\* Array.prototype.map(tag => tag.trim())
MapTrim(parts) == [i \in 1..Len(parts) |-> Trim(parts[i])]

\* Array.prototype.filter(tag => tag)
RECURSIVE FilterTruthy(_)
FilterTruthy(parts) ==
  IF parts = <<>> THEN <<>>
  ELSE IF TextTruthy(Head(parts))
       THEN <<Head(parts)>> \o FilterTruthy(Tail(parts))
       ELSE FilterTruthy(Tail(parts))

\* The parts without those equal to an earlier part.
RECURSIVE Unique(_)
Unique(parts) ==
  IF parts = <<>> THEN <<>>
  ELSE LET front == Unique(SubSeq(parts, 1, Len(parts) - 1))
           last == parts[Len(parts)]
       IN IF \E i \in 1..Len(front) : front[i] = last
          THEN front
          ELSE Append(front, last)

\* ModalTags removing duplicate tags.
ModalTagsUnique(tagsText) ==
  IF TextTruthy(tagsText)
  THEN Unique(FilterTruthy(MapTrim(Split(tagsText, ","))))
  ELSE <<>>

\* AddLinkModal.handleSubmit: the tags of processedData.
ModalTags(tagsText) ==
  IF TextTruthy(tagsText)
  THEN FilterTruthy(MapTrim(Split(tagsText, ",")))
  ELSE <<>>

\* LinkForm.handleSubmit: the tags of processedData.
LinkFormTags(tagsText) ==
  IF TextTruthy(tagsText)
  THEN FilterTruthy(MapTrim(Split(tagsText, ",")))
  ELSE <<>>

\* validateUrl: whether new URL(url) parses.  The one-character text "h"
\* stands for an absolute URL, "x" for a text that is none; the URL parser
\* strips leading and trailing spaces.
ValidateUrl(url) == Trim(url) = <<"h">>

UrlInputs == TextsUpTo({" ", "h", "x"}, 1)
TagInputs == {<<>>, <<" ", "a", ",">>}

\* The validation of handleSubmit: newErrors.url
UrlError(url) ==
  IF ~TextTruthy(Trim(url)) THEN Str("URL is required")
  ELSE IF ~ValidateUrl(url) THEN Str("Please enter a valid URL")
  ELSE Undefined

ModalIsOpen == IF root = "App" THEN app.isAddModalOpen ELSE main.isModalOpen

\* The loading prop: App passes its loading state, MainApp passes nothing.
ModalLoading == IF root = "App" THEN Bool(app.loading) ELSE Undefined

\* setIsAddModalOpen(true) / setIsModalOpen(true)
OpenAddModal ==
  /\ RootMounted /\ ~ModalIsOpen
  /\ input' = NoInput
  /\ UNCHANGED apart
  /\ IF root = "App"
     THEN app' = [app EXCEPT !.isAddModalOpen = TRUE] /\ UNCHANGED main
     ELSE main' = [main EXCEPT !.isModalOpen = TRUE] /\ UNCHANGED app
  /\ calls' = <<"setIsAddModalOpen">>
  /\ sent' = <<>>
  /\ UNCHANGED <<root, mounted, token, urlToken, nav, auth, searchBar, modal,
                 sidebar, axiosAuth, pending>>

\* onClose (overlay, × or Cancel), then the effect on isOpen that resets the form.
CloseAddModal ==
  /\ RootMounted /\ ModalIsOpen
  /\ input' = NoInput
  /\ UNCHANGED apart
  /\ IF root = "App"
     THEN app' = [app EXCEPT !.isAddModalOpen = FALSE] /\ UNCHANGED main
     ELSE main' = [main EXCEPT !.isModalOpen = FALSE] /\ UNCHANGED app
  /\ modal' = ModalConstructed
  /\ calls' = <<"AddLinkModal.onClose", "AddLinkModal.useEffect">>
  /\ sent' = <<>>
  /\ UNCHANGED <<root, mounted, token, urlToken, nav, auth, searchBar,
                 sidebar, axiosAuth, pending>>

\* handleChange of the field `name` (the fields are disabled while loading).
ModalChange(name, value) ==
  /\ RootMounted /\ ModalIsOpen /\ ~JsTruthy(ModalLoading)
  /\ value # modal.formData[name]
  /\ input' = [name |-> name, value |-> value]
  /\ UNCHANGED apart
  /\ modal' = [formData |-> [modal.formData EXCEPT ![name] = value],
               errors |-> IF name \in DOMAIN modal.errors
                             /\ JsTruthy(modal.errors[name])
                          THEN [modal.errors EXCEPT ![name] = Str("")]
                          ELSE modal.errors]
  /\ calls' = <<"AddLinkModal.handleChange">>
  /\ sent' = <<>>
  /\ UNCHANGED <<root, mounted, token, urlToken, nav, app, main, auth,
                 searchBar, sidebar, axiosAuth, pending>>

\* processedData of handleSubmit (title and description, removed when empty,
\* are left empty in this model).
ProcessedData(formData) ==
  [url |-> formData.url, tags |-> ModalTags(formData.tags)]

\* App.handleAddLink(linkData) up to its await.
AppHandleAddLink(linkData) ==
  /\ app' = [app EXCEPT !.loading = TRUE]
  /\ pending' = [pending EXCEPT !.add = Append(@, <<>>)]
  /\ calls' = <<"AddLinkModal.handleSubmit", "App.handleAddLink",
                "linksAPI.createLink">>
  /\ sent' = <<LinksAPI_createLink(token, linkData)>>
  /\ UNCHANGED main

\* MainApp.handleLinkAdded(linkData) up to its await; the continuation keeps
\* the links of the render that created this handler.
MainHandleLinkAdded(linkData) ==
  /\ pending' = [pending EXCEPT !.add = Append(@, main.links)]
  /\ calls' = <<"AddLinkModal.handleSubmit", "MainApp.handleLinkAdded",
                "createLink">>
  /\ sent' = <<LinksAPI_createLink(token, linkData)>>
  /\ UNCHANGED <<app, main>>

RootLinks == IF root = "App" THEN app.links ELSE main.links

\* handleSubmit up to its await of onSubmit(processedData).
ModalSubmit ==
  /\ RootMounted /\ ModalIsOpen /\ ~JsTruthy(ModalLoading)
  /\ Len(pending.add) < MaxInFlight
  /\ Len(RootLinks) < MaxLinks
  /\ input' = modal.formData
  /\ UNCHANGED apart
  /\ IF JsTruthy(UrlError(modal.formData.url))
     THEN /\ modal' = [modal EXCEPT
                 !.errors = [url |-> UrlError(modal.formData.url),
                             submit |-> Undefined]]
          /\ calls' = <<"AddLinkModal.handleSubmit">>
          /\ sent' = <<>>
          /\ UNCHANGED <<app, main, pending>>
     ELSE /\ IF root = "App"
             THEN AppHandleAddLink(ProcessedData(modal.formData))
             ELSE MainHandleLinkAdded(ProcessedData(modal.formData))
          /\ UNCHANGED modal
  /\ UNCHANGED <<root, mounted, token, urlToken, nav, auth, searchBar,
                 sidebar, axiosAuth>>

\* AppLinksAfterAdd appending: setLinks(prevLinks => [...prevLinks, newLink])
AppLinksAppended(newLink, prevLinks) == prevLinks \o <<newLink>>

\* setLinks(prevLinks => [newLink, ...prevLinks])
AppLinksAfterAdd(newLink, prevLinks) == <<newLink>> \o prevLinks

\* handleAddLink after createLink resolved, up to its return.
AppAddResolved(newLink) ==
  app' = [app EXCEPT
    !.links = AppLinksAfterAdd(newLink, @),
    !.message = Message("Link saved successfully!", "success"),
    !.isAddModalOpen = FALSE,
    !.loading = FALSE]

\* A handleAddLink that closes the modal when createLink failed, too.
AppAddRejectedClosing(f) ==
  app' = [app EXCEPT
    !.message = Message("Failed to save link. Please try again.", "error"),
    !.isAddModalOpen = FALSE,
    !.loading = FALSE]

\* handleAddLink after createLink rejected, up to its rethrow.
AppAddRejected(f) ==
  app' = [app EXCEPT
    !.message = Message("Failed to save link. Please try again.", "error"),
    !.loading = FALSE]

\* setLinks([newLink, ...links]), links being those the handler closed over.
MainLinksAfterAdd(newLink, closedOver) == <<newLink>> \o closedOver

\* handleLinkAdded after createLink resolved, up to its return.
MainAddResolved(newLink, closedOver) ==
  main' = [main EXCEPT !.links = MainLinksAfterAdd(newLink, closedOver),
                       !.isModalOpen = FALSE]

\* The sequence without its i-th element.
Without(seq, i) == SubSeq(seq, 1, i - 1) \o SubSeq(seq, i + 1, Len(seq))

\* The i-th createLink request in flight resolves: onSubmit returns, then
\* handleSubmit calls onClose(); the form is reset when that closes the modal.
AddResolve(i, newLink) ==
  /\ i \in 1..Len(pending.add)
  /\ input' = [newLink |-> newLink, closedOver |-> pending.add[i]]
  /\ UNCHANGED apart
  /\ pending' = [pending EXCEPT !.add = Without(@, i)]
  /\ IF root = "App"
     THEN /\ AppAddResolved(newLink)
          /\ calls' = <<"App.handleAddLink.resolved",
                        "AddLinkModal.handleSubmit.resolved",
                        "AddLinkModal.onClose">>
          /\ UNCHANGED main
     ELSE /\ MainAddResolved(newLink, pending.add[i])
          /\ calls' = <<"MainApp.handleLinkAdded.resolved",
                        "AddLinkModal.handleSubmit.resolved",
                        "AddLinkModal.onClose">>
          /\ UNCHANGED app
  /\ modal' = IF ModalIsOpen THEN ModalConstructed ELSE modal
  /\ sent' = <<>>
  /\ UNCHANGED <<root, mounted, token, urlToken, nav, auth, searchBar,
                 sidebar, axiosAuth>>

\* setErrors({ submit: error.message || 'Failed to save link' })
SubmitErrors(f) ==
  [url |-> Undefined, submit |-> JsOr(f.message, Str("Failed to save link"))]

\* The i-th createLink request in flight fails: the response interceptor,
\* the catch of the root's handler, which rethrows, then handleSubmit's catch.
AddReject(i, f) ==
  /\ i \in 1..Len(pending.add)
  /\ input' = [failure |-> f]
  /\ UNCHANGED apart
  /\ pending' = [pending EXCEPT !.add = Without(@, i)]
  /\ token' = TokenAfterError(f.status, token)
  /\ nav' = NavAfterError(f.status, nav)
  /\ IF root = "App"
     THEN /\ AppAddRejected(f)
          /\ calls' = <<"api.interceptors.response", "App.handleAddLink.catch",
                        "AddLinkModal.handleSubmit.catch">>
          /\ UNCHANGED main
     ELSE /\ calls' = <<"api.interceptors.response",
                        "MainApp.handleLinkAdded.catch",
                        "AddLinkModal.handleSubmit.catch">>
          /\ UNCHANGED <<app, main>>
  /\ modal' = [modal EXCEPT !.errors = SubmitErrors(f)]
  /\ sent' = <<>>
  /\ UNCHANGED <<root, mounted, urlToken, auth, searchBar, sidebar, axiosAuth>>


(***************************************************************************)
(* LinksSidebar.jsx                                                        *)
(***************************************************************************)
SidebarIsOpen == IF root = "App" THEN app.isSidebarOpen ELSE main.isSidebarOpen

\* The loading prop: App passes loadingLinks, MainApp passes nothing.
SidebarLoading == IF root = "App" THEN Bool(app.loadingLinks) ELSE Undefined

\* toggleSidebar / the menu button of MainApp
ToggleSidebar ==
  /\ RootMounted
  /\ input' = NoInput
  /\ UNCHANGED apart
  /\ IF root = "App"
     THEN app' = [app EXCEPT !.isSidebarOpen = ~@] /\ UNCHANGED main
     ELSE main' = [main EXCEPT !.isSidebarOpen = ~@] /\ UNCHANGED app
  /\ calls' = <<"toggleSidebar">>
  /\ sent' = <<>>
  /\ UNCHANGED <<root, mounted, token, urlToken, nav, auth, searchBar, modal,
                 sidebar, axiosAuth, pending>>

\* App.handleDeleteLink(linkId): showMessage only; the deletion is commented out.
AppHandleDeleteLink(linkId) ==
  app' = [app EXCEPT
    !.message = Message("Delete functionality coming soon!", "info")]

\* handleDelete(linkId) of the delete button of a listed link, with the
\* answer to window.confirm.  onDelete returns without awaiting a request, so
\* the finally (setDeletingId(null)) runs before any other event.  MainApp
\* passes no onDelete: calling it throws inside the try.
SidebarDelete(linkId, confirmed) ==
  /\ RootMounted /\ SidebarIsOpen /\ ~JsTruthy(SidebarLoading)
  /\ \E i \in 1..Len(RootLinks) : RootLinks[i]._id = linkId
  /\ sidebar.deletingId # Str(linkId)
  /\ input' = [linkId |-> linkId, confirmed |-> confirmed]
  /\ UNCHANGED apart
  /\ IF ~confirmed
     THEN /\ calls' = <<"LinksSidebar.handleDelete", "window.confirm">>
          /\ UNCHANGED <<app, sidebar>>
     ELSE /\ sidebar' = [sidebar EXCEPT !.deletingId = Null]
          /\ IF root = "App"
             THEN /\ AppHandleDeleteLink(linkId)
                  /\ calls' = <<"LinksSidebar.handleDelete", "window.confirm",
                                "App.handleDeleteLink",
                                "LinksSidebar.handleDelete.finally">>
             ELSE /\ calls' = <<"LinksSidebar.handleDelete", "window.confirm",
                                "TypeError",
                                "LinksSidebar.handleDelete.finally">>
                  /\ UNCHANGED app
  /\ sent' = <<>>
  /\ UNCHANGED <<root, mounted, token, urlToken, nav, main, auth, searchBar,
                 modal, axiosAuth, pending>>

(***************************************************************************)
(* Login, logout and the message timer of App.jsx                          *)
(***************************************************************************)
\* handleLogin -> authAPI.googleLogin: window.location.href = .../user/auth/google
AppLogin ==
  /\ root = "App" /\ RootMounted
  /\ ~JsTruthy(app.currentUser)
  /\ input' = NoInput
  /\ UNCHANGED apart
  /\ nav' = "oauth"
  /\ calls' = <<"App.handleLogin", "authAPI.googleLogin">>
  /\ sent' = <<>>
  /\ UNCHANGED <<root, mounted, token, urlToken, app, main, auth, searchBar,
                 modal, sidebar, axiosAuth, pending>>

\* handleLogout up to its await of authAPI.logout().
AppLogout ==
  /\ root = "App" /\ RootMounted
  /\ JsTruthy(app.currentUser)
  /\ pending.logout < MaxInFlight
  /\ input' = NoInput
  /\ UNCHANGED apart
  /\ pending' = [pending EXCEPT !.logout = @ + 1]
  /\ calls' = <<"App.handleLogout", "authAPI.logout">>
  /\ sent' = <<AuthAPI_logout(token)>>
  /\ UNCHANGED <<root, mounted, token, urlToken, nav, app, main, auth,
                 searchBar, modal, sidebar, axiosAuth>>

\* authAPI.logout resolved: the token is removed, then handleLogout continues.
AppLogoutResolve ==
  /\ root = "App" /\ pending.logout > 0
  /\ input' = NoInput
  /\ UNCHANGED apart
  /\ pending' = [pending EXCEPT !.logout = @ - 1]
  /\ token' = Null
  /\ app' = [app EXCEPT !.currentUser = Null,
                        !.message = Message("Successfully logged out", "success")]
  /\ calls' = <<"authAPI.logout.resolved", "App.handleLogout.resolved">>
  /\ sent' = <<>>
  /\ UNCHANGED <<root, mounted, urlToken, nav, main, auth, searchBar, modal,
                 sidebar, axiosAuth>>

\* authAPI.logout rejected.
AppLogoutReject(f) ==
  /\ root = "App" /\ pending.logout > 0
  /\ input' = [failure |-> f]
  /\ UNCHANGED apart
  /\ pending' = [pending EXCEPT !.logout = @ - 1]
  /\ token' = TokenAfterError(f.status, token)
  /\ nav' = NavAfterError(f.status, nav)
  /\ app' = [app EXCEPT !.message = Message("Failed to logout", "error")]
  /\ calls' = <<"api.interceptors.response", "App.handleLogout.catch">>
  /\ sent' = <<>>
  /\ UNCHANGED <<root, mounted, urlToken, main, auth, searchBar, modal,
                 sidebar, axiosAuth>>

\* setTimeout(() => setMessage(null), 5000): every message shown has a timer
\* pending that clears it.
MessageTimeout ==
  /\ root = "App" /\ JsTruthy(app.message)
  /\ input' = NoInput
  /\ UNCHANGED apart
  /\ app' = [app EXCEPT !.message = Null]
  /\ calls' = <<"setTimeout">>
  /\ sent' = <<>>
  /\ UNCHANGED <<root, mounted, token, urlToken, nav, main, auth, searchBar,
                 modal, sidebar, axiosAuth, pending>>

(***************************************************************************)
(* AuthContext.jsx: AuthProvider, which uses the global axios (no           *)
(* interceptors) with axios.defaults.headers.common['Authorization'].      *)
(***************************************************************************)
AxiosRequest(method, url) ==
  [method |-> method, url |-> url, params |-> <<>>, authorization |-> axiosAuth]

\* The mount effects of AuthProvider: the effect on [token], then checkAuth up
\* to its await (or to its end when there is no token).
AuthMount ==
  /\ root = "MainApp" /\ mounted = {}
  /\ mounted' = {"AuthProvider"}
  /\ input' = NoInput
  /\ UNCHANGED apart
  /\ LET tokenFromUrl == urlToken
         held == JsOr(tokenFromUrl, auth.token)
     IN /\ auth' = [auth EXCEPT !.token = held,
                                !.loading = JsTruthy(held)]
        /\ token' = IF JsTruthy(held) THEN held ELSE Null
        /\ axiosAuth' = Authorization(held)
        /\ pending' = [pending EXCEPT !.checkAuth = JsTruthy(held)]
        /\ sent' = IF JsTruthy(held)
                   THEN <<[method |-> "GET", url |-> "http://localhost:8000/user/me",
                           params |-> <<>>, authorization |-> Authorization(held)]>>
                   ELSE <<>>
  /\ urlToken' = Null
  /\ calls' = <<"AuthProvider.useEffect", "AuthProvider.checkAuth">>
  /\ UNCHANGED <<root, nav, app, main, searchBar, modal, sidebar>>

\* checkAuth, after GET /user/me resolved.
AuthCheckResolve(id) ==
  /\ root = "MainApp" /\ pending.checkAuth
  /\ input' = [user |-> id]
  /\ UNCHANGED apart
  /\ pending' = [pending EXCEPT !.checkAuth = FALSE]
  /\ auth' = [auth EXCEPT !.user = User(id), !.loading = FALSE]
  /\ calls' = <<"AuthProvider.checkAuth.resolved">>
  /\ sent' = <<>>
  /\ UNCHANGED <<root, mounted, token, urlToken, nav, app, main, searchBar,
                 modal, sidebar, axiosAuth>>

\* checkAuth, after GET /user/me rejected: setToken(null), setUser(null); the
\* effect on [token] runs when that changes the token state.
AuthCheckReject ==
  /\ root = "MainApp" /\ pending.checkAuth
  /\ input' = NoInput
  /\ UNCHANGED apart
  /\ pending' = [pending EXCEPT !.checkAuth = FALSE]
  /\ auth' = [auth EXCEPT !.token = Null, !.user = Null, !.loading = FALSE]
  /\ token' = IF auth.token # Null THEN Null ELSE token
  /\ axiosAuth' = IF auth.token # Null THEN Undefined ELSE axiosAuth
  /\ calls' = <<"AuthProvider.checkAuth.catch", "AuthProvider.useEffect">>
  /\ sent' = <<>>
  /\ UNCHANGED <<root, mounted, urlToken, nav, app, main, searchBar, modal,
                 sidebar>>

\* login: window.location.href = .../user/auth/google
AuthLogin ==
  /\ root = "MainApp" /\ "AuthProvider" \in mounted
  /\ ~JsTruthy(auth.user)
  /\ input' = NoInput
  /\ UNCHANGED apart
  /\ nav' = "oauth"
  /\ calls' = <<"AuthProvider.login">>
  /\ sent' = <<>>
  /\ UNCHANGED <<root, mounted, token, urlToken, app, main, auth, searchBar,
                 modal, sidebar, axiosAuth, pending>>

\* logout (the Sign Out button of MainApp) up to its await.
AuthLogout ==
  /\ root = "MainApp" /\ "MainApp" \in mounted
  /\ pending.logout < MaxInFlight
  /\ input' = NoInput
  /\ UNCHANGED apart
  /\ pending' = [pending EXCEPT !.logout = @ + 1]
  /\ calls' = <<"AuthProvider.logout">>
  /\ sent' = <<AxiosRequest("POST", "http://localhost:8000/user/logout")>>
  /\ UNCHANGED <<root, mounted, token, urlToken, nav, app, main, auth,
                 searchBar, modal, sidebar, axiosAuth>>

\* logout after its request settled, resolved or rejected alike.
AuthLogoutSettle ==
  /\ root = "MainApp" /\ pending.logout > 0
  /\ input' = NoInput
  /\ UNCHANGED apart
  /\ pending' = [pending EXCEPT !.logout = @ - 1]
  /\ auth' = [auth EXCEPT !.user = Null, !.token = Null]
  /\ token' = Null
  /\ axiosAuth' = Undefined
  /\ calls' = <<"AuthProvider.logout.settled", "AuthProvider.useEffect">>
  /\ sent' = <<>>
  /\ UNCHANGED <<root, mounted, urlToken, nav, app, main, searchBar, modal,
                 sidebar>>

(***************************************************************************)
(* The browser: a navigation started by assigning window.location.href     *)
(* unloads the page and constructs the components anew; localStorage       *)
(* stays.  Coming back from the OAuth provider may carry a token.          *)
(***************************************************************************)
PageLoad(tokenParam) ==
  /\ nav # "none"
  /\ tokenParam # Null => nav = "oauth"
  /\ input' = NoInput
  /\ UNCHANGED apart
  /\ nav' = "none"
  /\ mounted' = {}
  /\ urlToken' = tokenParam
  /\ app' = AppConstructed
  /\ main' = MainConstructed
  /\ auth' = AuthConstructed(token)
  /\ searchBar' = SearchBarConstructed
  /\ modal' = ModalConstructed
  /\ sidebar' = SidebarConstructed
  /\ axiosAuth' = Undefined
  /\ pending' = NoPending
  /\ calls' = <<"window.location">>
  /\ sent' = <<>>
  /\ UNCHANGED <<root, token>>

(***************************************************************************)
(* Two specifications of the page, by feature.  Spec: mounting, the        *)
(* session (checkAuth, login, logout), the search box and the search       *)
(* request, and MainApp's loadLinks, which shares loading and error with   *)
(* its search.  SpecLinks: mounting, the list of links, the add-link       *)
(* modal, the sidebar and its delete button.  Both include the reload of   *)
(* the page.                                                               *)
(***************************************************************************)
Next ==
  \/ AppMount
  \/ \E id \in UserIds : CheckAuthResolve(id)
  \/ \E f \in Failures : CheckAuthReject(f)
  \/ AuthMount
  \/ \E id \in UserIds : AuthCheckResolve(id)
  \/ AuthCheckReject
  \/ MainMount
  \/ \E data \in {<<>>} : LoadLinksResolve(data)
  \/ \E f \in Failures : LoadLinksReject(f)
  \/ MainClearSearch
  \/ MainDismissError
  \/ \E q \in Queries : SearchBarChange(q)
  \/ SearchBarSubmit
  \/ \E results \in SearchResponses : SearchResolve(results)
  \/ \E f \in Failures : SearchReject(f)
  \/ AppLogin
  \/ AppLogout
  \/ AppLogoutResolve
  \/ \E f \in Failures : AppLogoutReject(f)
  \/ MessageTimeout
  \/ AuthLogin
  \/ AuthLogout
  \/ AuthLogoutSettle
  \/ \E tokenParam \in {Null, Str("t1")} : PageLoad(tokenParam)

Spec == Init /\ [][Next]_vars

NextLinks ==
  \/ AppMount
  \/ \E data \in LinkLists : FetchLinksResolve(data)
  \/ \E f \in Failures : FetchLinksReject(f)
  \/ AuthMount
  \/ MainMount
  \/ \E data \in LinkLists : LoadLinksResolve(data)
  \/ \E f \in Failures : LoadLinksReject(f)
  \/ OpenAddModal
  \/ CloseAddModal
  \/ \E value \in UrlInputs : ModalChange("url", value)
  \/ \E value \in TagInputs : ModalChange("tags", value)
  \/ ModalSubmit
  \/ \E i \in 1..MaxInFlight, id \in LinkIds : AddResolve(i, Link(id))
  \/ \E i \in 1..MaxInFlight, f \in Failures : AddReject(i, f)
  \/ ToggleSidebar
  \/ \E id \in LinkIds, confirmed \in BOOLEAN : SidebarDelete(id, confirmed)
  \/ MessageTimeout
  \/ \E tokenParam \in {Null} : PageLoad(tokenParam)

\* The page was loaded without a token, stored or in its address.
InitLinks == Init /\ token = Null /\ urlToken = Null

SpecLinks == InitLinks /\ [][NextLinks]_vars


(***************************************************************************)
(* LinkForm.jsx, a form with the fields of AddLinkModal that neither root  *)
(* renders; its parent (onSubmit) is not part of the model.                *)
(***************************************************************************)
\* processedData of LinkForm.handleSubmit (title and description left empty).
LinkFormProcessedData(formData) ==
  [url |-> formData.url, tags |-> LinkFormTags(formData.tags)]

\* handleSubmit up to its await of onSubmit(processedData).
LinkFormSubmit ==
  /\ ~pending.linkForm
  /\ input' = linkForm.formData
  /\ IF JsTruthy(UrlError(linkForm.formData.url))
     THEN /\ linkForm' = [linkForm EXCEPT
                 !.errors = [url |-> UrlError(linkForm.formData.url),
                             submit |-> Undefined]]
          /\ calls' = <<"LinkForm.handleSubmit">>
          /\ UNCHANGED <<submitted, pending>>
     ELSE /\ submitted' = LinkFormProcessedData(linkForm.formData)
          /\ pending' = [pending EXCEPT !.linkForm = TRUE]
          /\ calls' = <<"LinkForm.handleSubmit", "onSubmit">>
          /\ UNCHANGED linkForm
  /\ sent' = <<>>
  /\ UNCHANGED <<backend, linkList>>
  /\ UNCHANGED <<root, mounted, token, urlToken, nav, app, main, auth,
                 searchBar, modal, sidebar, axiosAuth, view>>

\* onSubmit resolved: the form is reset.
LinkFormResolve ==
  /\ pending.linkForm
  /\ input' = NoInput
  /\ pending' = [pending EXCEPT !.linkForm = FALSE]
  /\ linkForm' = LinkFormConstructed
  /\ calls' = <<"LinkForm.handleSubmit.resolved">>
  /\ sent' = <<>>
  /\ UNCHANGED <<backend, linkList>>
  /\ UNCHANGED <<root, mounted, token, urlToken, nav, app, main, auth,
                 searchBar, modal, sidebar, axiosAuth, submitted, view>>

\* onSubmit rejected: setErrors({ submit: error.message || 'Failed to save link' })
LinkFormReject(f) ==
  /\ pending.linkForm
  /\ input' = [failure |-> f]
  /\ pending' = [pending EXCEPT !.linkForm = FALSE]
  /\ linkForm' = [linkForm EXCEPT !.errors = SubmitErrors(f)]
  /\ calls' = <<"LinkForm.handleSubmit.catch">>
  /\ sent' = <<>>
  /\ UNCHANGED <<backend, linkList>>
  /\ UNCHANGED <<root, mounted, token, urlToken, nav, app, main, auth,
                 searchBar, modal, sidebar, axiosAuth, submitted, view>>

(***************************************************************************)
(* LinkList (part_001), a list of the links with a delete button each that *)
(* neither root renders; its parent (links, onDelete) is not part of the   *)
(* model: onDelete returns a promise that its caller settles later.        *)
(***************************************************************************)
\* disabled={deletingId === link._id}
LinkListDisabled(deletingId, linkId) == deletingId = Str(linkId)

\* handleDelete(linkId) of the delete button of a listed link, with the
\* answer to window.confirm, up to its await of onDelete(linkId).
LinkListDelete(linkId, confirmed) ==
  /\ \E i \in 1..Len(linkList.links) : linkList.links[i]._id = linkId
  /\ ~LinkListDisabled(linkList.deletingId, linkId)
  /\ Len(linkList.deleting) < MaxDeleting
  /\ input' = [linkId |-> linkId, confirmed |-> confirmed]
  /\ IF ~confirmed
     THEN /\ calls' = <<"LinkList.handleDelete", "window.confirm">>
          /\ UNCHANGED linkList
     ELSE /\ linkList' = [linkList EXCEPT !.deletingId = Str(linkId),
                                          !.deleting = Append(@, linkId)]
          /\ calls' = <<"LinkList.handleDelete", "window.confirm", "onDelete">>
  /\ sent' = <<>>
  /\ UNCHANGED <<backend, linkForm, submitted, view>>
  /\ UNCHANGED <<root, mounted, token, urlToken, nav, app, main, auth,
                 searchBar, modal, sidebar, axiosAuth, pending>>

\* The i-th onDelete call not yet settled resolves or rejects: the finally
\* of its handleDelete, setDeletingId(null).
LinkListSettle(i, resolved) ==
  /\ i \in 1..Len(linkList.deleting)
  /\ input' = [linkId |-> linkList.deleting[i], resolved |-> resolved]
  /\ linkList' = [linkList EXCEPT !.deletingId = Null,
                                  !.deleting = Without(@, i)]
  /\ calls' = <<"LinkList.handleDelete.finally">>
  /\ sent' = <<>>
  /\ UNCHANGED <<backend, linkForm, submitted, view>>
  /\ UNCHANGED <<root, mounted, token, urlToken, nav, app, main, auth,
                 searchBar, modal, sidebar, axiosAuth, pending>>

\* SpecLinkList: LinkList rendered with any list of links.
InitLinkList ==
  /\ root = "App"
  /\ mounted = {}
  /\ token = Null
  /\ urlToken = Null
  /\ nav = "none"
  /\ app = AppConstructed
  /\ main = MainConstructed
  /\ auth = AuthConstructed(token)
  /\ searchBar = SearchBarConstructed
  /\ modal = ModalConstructed
  /\ sidebar = SidebarConstructed
  /\ axiosAuth = Undefined
  /\ pending = NoPending
  /\ linkForm = LinkFormConstructed
  /\ submitted = NoInput
  /\ view = NoView
  /\ \E links \in LinkLists : linkList = [LinkListConstructed EXCEPT !.links = links]
  /\ BackendConstructed
  /\ input = NoInput
  /\ calls = <<>>
  /\ sent = <<>>

NextLinkList ==
  \/ \E linkId \in LinkIds, confirmed \in BOOLEAN : LinkListDelete(linkId, confirmed)
  \/ \E i \in 1..MaxDeleting, resolved \in BOOLEAN : LinkListSettle(i, resolved)

SpecLinkList == InitLinkList /\ [][NextLinkList]_vars

(***************************************************************************)
(* SpecTags: the two forms, open with a valid URL and any text of at most  *)
(* MaxFieldLen characters in the tags field, are submitted.                *)
(***************************************************************************)
TagAlphabet == {" ", ",", "a", "b"}
TagTexts == TextsUpTo(TagAlphabet, MaxFieldLen)

InitTags ==
  /\ root \in {"App", "MainApp"}
  /\ mounted = IF root = "App" THEN {"App"} ELSE {"AuthProvider", "MainApp"}
  /\ token = Null
  /\ urlToken = Null
  /\ nav = "none"
  /\ app = IF root = "App"
           THEN [AppConstructed EXCEPT !.isAddModalOpen = TRUE]
           ELSE AppConstructed
  /\ main = IF root = "MainApp"
            THEN [MainConstructed EXCEPT !.isModalOpen = TRUE, !.loading = TRUE]
            ELSE MainConstructed
  /\ auth = IF root = "MainApp"
            THEN [AuthConstructed(Null) EXCEPT !.loading = FALSE]
            ELSE AuthConstructed(Null)
  /\ searchBar = SearchBarConstructed
  /\ \E t \in TagTexts :
       /\ modal = [formData |-> [url |-> <<"h">>, tags |-> t], errors |-> NoErrors]
       /\ linkForm = [formData |-> [url |-> <<"h">>, tags |-> t], errors |-> NoErrors]
       /\ input = [name |-> "tags", value |-> t]
  /\ sidebar = SidebarConstructed
  /\ axiosAuth = Undefined
  /\ pending = [NoPending EXCEPT !.checkAuth = (root = "App"), !.fetchLinks = TRUE]
  /\ submitted = NoInput
  /\ view = NoView
  /\ linkList = LinkListConstructed
  /\ BackendConstructed
  /\ calls = <<"AddLinkModal.handleChange">>
  /\ sent = <<>>

NextTags ==
  \/ ModalSubmit
  \/ LinkFormSubmit
  \/ LinkFormResolve
  \/ \E f \in Failures : LinkFormReject(f)

SpecTags == InitTags /\ [][NextTags]_vars

(***************************************************************************)
(* SearchResults.jsx: the list it returns.  A score k stands for the       *)
(* number k/ScoreDen.                                                      *)
(***************************************************************************)
\* RoundPct truncating: Math.floor(score * 100)
FloorPct(score) == (100 * score) \div ScoreDen

\* Math.round(score * 100): the nearest integer, a half rounded up.
RoundPct(score) == (200 * score + ScoreDen) \div (2 * ScoreDen)

Min(a, b) == IF a <= b THEN a ELSE b

\* Array.prototype.slice(0, end)
SliceFromStart(items, end) == SubSeq(items, 1, Min(end, Len(items)))

\* result.matching_chunks.slice(0, 2).map(chunk => <chunk-preview>)
ChunkPreviews(chunks) ==
  LET shown == SliceFromStart(chunks, 2)
  IN [i \in 1..Len(shown) |->
        [text |-> shown[i].text, score |-> RoundPct(shown[i].score)]]

\* The result-chunks block of a card: the previews and the "+n more matching
\* sections" counter.
ResultChunks(matching_chunks) ==
  IF JsTruthy(matching_chunks) /\ Len(matching_chunks.items) > 0
  THEN [previews |-> ChunkPreviews(matching_chunks.items),
        more |-> IF Len(matching_chunks.items) > 2
                 THEN Num(Len(matching_chunks.items) - 2)
                 ELSE Undefined]
  ELSE [previews |-> <<>>, more |-> Undefined]

\* One result-card.
ResultCard(result) ==
  [key |-> result.link_id, score |-> RoundPct(result.score),
   chunks |-> ResultChunks(result.matching_chunks)]

\* ResultCards in reverse order.
ResultCardsReversed(items) ==
  [i \in 1..Len(items) |-> ResultCard(items[Len(items) + 1 - i])]

\* results.map(result => <result-card>)
ResultCards(items) == [i \in 1..Len(items) |-> ResultCard(items[i])]

\* What SearchResults returns for its props.
SearchResultsView(results, loading, error, query) ==
  LET panel == SearchResultsPanel(results, loading, error, query)
  IN IF panel = "results-list"
     THEN [panel |-> panel, count |-> Len(results.items),
           cards |-> ResultCards(results.items)]
     ELSE [panel |-> panel]

\* App renders SearchResults.
AppRender ==
  /\ root = "App" /\ RootMounted
  /\ AppRendersSearchResults
  /\ input' = NoInput
  /\ view' = SearchResultsView(app.searchResults, Bool(app.searchLoading),
                               app.searchError, app.searchQuery)
  /\ calls' = <<"App", "SearchResults">>
  /\ sent' = <<>>
  /\ UNCHANGED <<backend, linkList>>
  /\ UNCHANGED <<root, mounted, token, urlToken, nav, app, main, auth,
                 searchBar, modal, sidebar, axiosAuth, pending, linkForm,
                 submitted>>

\* MainApp renders SearchResults.
MainRender ==
  /\ root = "MainApp" /\ RootMounted
  /\ main.isSearching /\ ~main.loading
  /\ input' = NoInput
  /\ view' = SearchResultsView(main.searchResults, Undefined, Undefined,
                               main.searchQuery)
  /\ calls' = <<"MainApp", "SearchResults">>
  /\ sent' = <<>>
  /\ UNCHANGED <<backend, linkList>>
  /\ UNCHANGED <<root, mounted, token, urlToken, nav, app, main, auth,
                 searchBar, modal, sidebar, axiosAuth, pending, linkForm,
                 submitted>>

(***************************************************************************)
(* SpecRender: a search has resolved with a SearchResult sequence, which   *)
(* is rendered.  The sequences: up to MaxResults results of distinct links *)
(* with up to MaxChunks chunks each, and one result with any aggregate and *)
(* any chunk score.                                                        *)
(***************************************************************************)
ChunkTexts == <<"c1", "c2", "c3", "c4", "c5", "c6">>

ChunksOf(n) == [i \in 1..n |-> Chunk(ChunkTexts[i], ScoreDen - i)]

ResultShapes ==
  {[score |-> sc, matching_chunks |-> mc] :
     sc \in {0, ScoreDen},
     mc \in {Undefined} \cup {Arr(ChunksOf(n)) : n \in 0..MaxChunks}}

IdLists ==
  {t \in TextsUpTo(LinkIds, MaxResults) :
     \A i, j \in 1..Len(t) : i # j => t[i] # t[j]}

StructuralResults ==
  UNION {{[i \in 1..Len(ids) |->
             [link_id |-> ids[i], score |-> shape[i].score,
              matching_chunks |-> shape[i].matching_chunks]] :
            shape \in [1..Len(ids) -> ResultShapes]} : ids \in IdLists}

ScoreResults ==
  {<<SearchResult("L1", k, <<Chunk("c1", m)>>)>> : k \in 0..ScoreDen, m \in 0..ScoreDen}

RenderedResults == StructuralResults \cup ScoreResults

InitRender ==
  /\ root \in {"App", "MainApp"}
  /\ mounted = IF root = "App" THEN {"App"} ELSE {"AuthProvider", "MainApp"}
  /\ token = Null
  /\ urlToken = Null
  /\ nav = "none"
  /\ \E rs \in RenderedResults :
       /\ app = IF root = "App"
                THEN [AppConstructed EXCEPT
                        !.searchQuery = <<"a">>,
                        !.searchResults = Arr(rs),
                        !.message = IF Len(rs) = 0
                                    THEN Message("No results found. Try adding more links to your knowledge base.", "info")
                                    ELSE Null]
                ELSE AppConstructed
       /\ main = IF root = "MainApp"
                 THEN [MainConstructed EXCEPT
                         !.isSearching = TRUE, !.searchQuery = <<"a">>,
                         !.searchResults = Arr(rs)]
                 ELSE MainConstructed
       /\ input = [results |-> rs]
  /\ auth = IF root = "MainApp"
            THEN [AuthConstructed(Null) EXCEPT !.loading = FALSE]
            ELSE AuthConstructed(Null)
  /\ searchBar = [query |-> <<"a">>, isSearching |-> FALSE]
  /\ modal = ModalConstructed
  /\ sidebar = SidebarConstructed
  /\ axiosAuth = Undefined
  /\ pending = [NoPending EXCEPT !.checkAuth = (root = "App"), !.fetchLinks = TRUE]
  /\ linkForm = LinkFormConstructed
  /\ submitted = NoInput
  /\ view = NoView
  /\ linkList = LinkListConstructed
  /\ BackendConstructed
  /\ calls = <<IF root = "App" THEN "App.handleSearch.resolved"
                               ELSE "MainApp.handleSearch.resolved",
               "SearchBar.handleSubmit.finally">>
  /\ sent = <<>>

NextRender ==
  \/ AppRender
  \/ MainRender

SpecRender == InitRender /\ [][NextRender]_vars


(***************************************************************************)
(* The backend: the Vector Store, section 4.3 of the specification.        *)
(***************************************************************************)
\* The variables no step of the backend changes.
frontend == <<root, mounted, token, urlToken, nav, app, main, auth, searchBar,
              modal, sidebar, axiosAuth, pending, linkForm, linkList,
              submitted, view, sent>>

\* A put_chunks that is no replacement: the new chunks are written next
\* to the old ones.
PutChunksMerging(store, link_id, owner, chunks) ==
  [store EXCEPT ![link_id] = StoreEntry(owner, @.chunks \o chunks)]

\* put_chunks(link_id, owner, chunks_with_vectors): replaces the chunks of
\* link_id, in one step.
PutChunks(store, link_id, owner, chunks) ==
  [store EXCEPT ![link_id] = StoreEntry(owner, chunks)]

\* delete_link(link_id): removes the chunks of link_id; idempotent.
DeleteChunks(store, link_id) == [store EXCEPT ![link_id] = NoEntry]

\* Whether scan(owner_filter) iterates the chunks of an entry.
Visible(entry, owner_filter) ==
  owner_filter = NoOwner \/ entry.owner = owner_filter

\* A scan under way learns of a chunk set that became the complete set of
\* link_id while it runs.
ScanNoting(sc, link_id, chunks) ==
  IF sc.active
  THEN [sc EXCEPT !.complete[link_id] = @ \cup {chunks}]
  ELSE sc

(***************************************************************************)
(* The backend: the Ingestion Pipeline, section 4.4 of the specification.  *)
(***************************************************************************)
\* What the Fetcher may return: a text, as its sequence of sentences.
FetchedTexts == {<<>>, <<" ">>, <<"a">>, <<"b", "c">>}

\* What the Fetcher may answer: a text, or an error.
FetchError == [error |-> "FetchError", text |-> <<>>]
Fetched(text) == [error |-> "none", text |-> text]
FetchOutcomes == {FetchError} \cup {Fetched(text) : text \in FetchedTexts}

\* chunk(text, ...): one span per sentence that is not whitespace; an empty
\* or whitespace-only text yields zero chunks.
RECURSIVE Chunker(_)
Chunker(text) ==
  IF text = <<>> THEN <<>>
  ELSE IF Head(text) \in Whitespace
       THEN Chunker(Tail(text))
       ELSE <<Head(text)>> \o Chunker(Tail(text))

\* The similarity of a span's embedding to the query searched for.
Similarity(span) ==
  CASE span = "a" -> MaxScore
    [] span = "b" -> 1
    [] OTHER -> 0

\* embed_batch(texts): the chunks with their vectors, in the order of texts.
EmbedBatch(spans) ==
  [i \in 1..Len(spans) |-> StoredChunk(spans[i], Similarity(spans[i]))]

\* The pipeline writes the status of a Link; a vanished link has none.
WithStatus(links, link_id, status) ==
  IF LinkExists(links[link_id])
  THEN [links EXCEPT ![link_id].status = status]
  ELSE links

\* submit_link(url, owner, ...): creates the Link, pending, and triggers the
\* pipeline.  Link ids are given out in order.
SubmitLink(link_id, owner) ==
  /\ dbLinks[link_id] = Absent
  /\ \A j \in 1..(link_id - 1) : dbLinks[j] # Absent
  /\ dbLinks' = [dbLinks EXCEPT ![link_id] = LinkRecord(owner, link_id, "pending")]
  /\ ingest' = [ingest EXCEPT ![link_id] = [pc |-> "triggered", text |-> <<>>]]
  /\ calls' = <<"submit_link">>
  /\ input' = [link_id |-> link_id, owner |-> owner]
  /\ UNCHANGED <<vectorStore, scan, retrieved, frontend>>

\* The caller invokes the pipeline again on a link whose ingestion ended.
Reinvoke(link_id) ==
  /\ LinkExists(dbLinks[link_id])
  /\ dbLinks[link_id].status \in Terminal
  /\ ingest[link_id].pc = "idle"
  /\ ingest' = [ingest EXCEPT ![link_id] = [pc |-> "triggered", text |-> <<>>]]
  /\ calls' = <<"ingest">>
  /\ input' = [link_id |-> link_id]
  /\ UNCHANGED <<dbLinks, vectorStore, scan, retrieved, frontend>>

\* Step 1: transition the Link to processing.
PipelineBegin(link_id) ==
  /\ ingest[link_id].pc = "triggered"
  /\ dbLinks' = WithStatus(dbLinks, link_id, "processing")
  /\ ingest' = [ingest EXCEPT ![link_id].pc = "fetch"]
  /\ calls' = <<"IngestionPipeline.begin">>
  /\ input' = [link_id |-> link_id]
  /\ UNCHANGED <<vectorStore, scan, retrieved, frontend>>

\* A pipeline that retries by itself: the failed invocation puts the Link
\* back to pending and triggers another one.
PipelineFailedRetrying(link_id, step) ==
  /\ dbLinks' = WithStatus(dbLinks, link_id, "pending")
  /\ ingest' = [ingest EXCEPT ![link_id] = [pc |-> "triggered", text |-> <<>>]]
  /\ calls' = <<"IngestionPipeline." \o step, "IngestionPipeline.failed",
                "IngestionPipeline.return">>
  /\ UNCHANGED <<vectorStore, scan, retrieved, frontend>>

\* A pipeline that lets a failure escape: the invocation ends and the Link
\* is left as it was.
PipelineFailedEscaping(link_id, step) ==
  /\ ingest' = [ingest EXCEPT ![link_id] = IdleJob]
  /\ calls' = <<"IngestionPipeline." \o step, "IngestionPipeline.failed",
                "IngestionPipeline.return">>
  /\ UNCHANGED <<dbLinks, vectorStore, scan, retrieved, frontend>>

\* A step fails, or an unexpected error is caught: transition to failed,
\* record no chunks, return.
PipelineFailed(link_id, step) ==
  /\ dbLinks' = WithStatus(dbLinks, link_id, "failed")
  /\ ingest' = [ingest EXCEPT ![link_id] = IdleJob]
  /\ calls' = <<"IngestionPipeline." \o step, "IngestionPipeline.failed",
                "IngestionPipeline.return">>
  /\ UNCHANGED <<vectorStore, scan, retrieved, frontend>>

\* Step 2: fetch the content.
PipelineFetch(link_id, fetched) ==
  /\ ingest[link_id].pc = "fetch"
  /\ input' = [link_id |-> link_id]
  /\ IF fetched = FetchError
     THEN PipelineFailed(link_id, "fetch")
     ELSE /\ ingest' = [ingest EXCEPT ![link_id] = [pc |-> "chunk", text |-> fetched.text]]
          /\ calls' = <<"IngestionPipeline.fetch">>
          /\ UNCHANGED <<dbLinks, vectorStore, scan, retrieved, frontend>>

\* Step 3: chunk the fetched text; zero chunks fail the ingestion.
PipelineChunk(link_id) ==
  /\ ingest[link_id].pc = "chunk"
  /\ input' = [link_id |-> link_id]
  /\ IF Chunker(ingest[link_id].text) = <<>>
     THEN PipelineFailed(link_id, "chunk")
     ELSE /\ ingest' = [ingest EXCEPT ![link_id].pc = "embed"]
          /\ calls' = <<"IngestionPipeline.chunk">>
          /\ UNCHANGED <<dbLinks, vectorStore, scan, retrieved, frontend>>

\* Step 4: embed all chunks in one batch call.
PipelineEmbed(link_id, ok) ==
  /\ ingest[link_id].pc = "embed"
  /\ input' = [link_id |-> link_id]
  /\ IF ~ok
     THEN PipelineFailed(link_id, "embed")
     ELSE /\ ingest' = [ingest EXCEPT ![link_id].pc = "put"]
          /\ calls' = <<"IngestionPipeline.embed">>
          /\ UNCHANGED <<dbLinks, vectorStore, scan, retrieved, frontend>>

\* The chunks an invocation persists.
PipelineChunks(job) == EmbedBatch(Chunker(job.text))

\* A pipeline whose write does not look for the Link: the chunks of a
\* vanished link are written under no owner.
PersistChunksUnchecked(store, links, link_id, chunks) ==
  PutChunks(store, link_id,
            IF LinkExists(links[link_id]) THEN links[link_id].owner ELSE NoOwner,
            chunks)

\* The write of step 5: put_chunks under the owner of the Link, and a no-op
\* against a vanished link.
PersistChunks(store, links, link_id, chunks) ==
  IF LinkExists(links[link_id])
  THEN PutChunks(store, link_id, links[link_id].owner, chunks)
  ELSE store

\* Step 5: persist the chunks via put_chunks and transition to ready.  The
\* write is a no-op against a vanished link.
PipelinePut(link_id, ok) ==
  /\ ingest[link_id].pc = "put"
  /\ input' = [link_id |-> link_id]
  /\ IF ~ok
     THEN PipelineFailed(link_id, "put_chunks")
     ELSE /\ vectorStore' = PersistChunks(vectorStore, dbLinks, link_id,
                                           PipelineChunks(ingest[link_id]))
          /\ scan' = IF LinkExists(dbLinks[link_id])
                     THEN ScanNoting(scan, link_id,
                                     PipelineChunks(ingest[link_id]))
                     ELSE scan
          /\ dbLinks' = WithStatus(dbLinks, link_id, "ready")
          /\ ingest' = [ingest EXCEPT ![link_id] = IdleJob]
          /\ calls' = <<"IngestionPipeline.put_chunks", "IngestionPipeline.return">>
          /\ UNCHANGED <<retrieved, frontend>>

\* Step 6: an unexpected error at any step is caught and mapped to failed.
PipelineUnexpected(link_id) ==
  /\ ingest[link_id].pc \in {"fetch", "chunk", "embed", "put"}
  /\ input' = [link_id |-> link_id]
  /\ PipelineFailed(link_id, "unexpected")

\* The Link CRUD layer deletes a link: the Link vanishes and delete_link
\* removes its chunks.
DeleteLink(link_id) ==
  /\ LinkExists(dbLinks[link_id])
  /\ dbLinks' = [dbLinks EXCEPT ![link_id] = Vanished]
  /\ vectorStore' = DeleteChunks(vectorStore, link_id)
  /\ scan' = ScanNoting(scan, link_id, <<>>)
  /\ calls' = <<"delete_link">>
  /\ input' = [link_id |-> link_id]
  /\ UNCHANGED <<ingest, retrieved, frontend>>

(***************************************************************************)
(* The backend: scan(owner_filter), a lazy sequence that yields the chunks *)
(* of one link at a time, in the order of the link ids.                    *)
(***************************************************************************)
ScanStart(owner_filter) ==
  /\ ~scan.active
  /\ scan' = [active |-> TRUE, owner_filter |-> owner_filter,
              cursor |-> 0, yielded |-> <<>>,
              complete |-> [id \in StoreIds |-> {vectorStore[id].chunks}]]
  /\ calls' = <<"scan">>
  /\ input' = [owner_filter |-> owner_filter]
  /\ UNCHANGED <<dbLinks, vectorStore, ingest, retrieved, frontend>>

\* The link ids the scan has yet to yield.
ScanAhead ==
  {id \in StoreIds : /\ id > scan.cursor
                     /\ vectorStore[id].chunks # <<>>
                     /\ Visible(vectorStore[id], scan.owner_filter)}

ScanNext ==
  /\ scan.active /\ ScanAhead # {}
  /\ LET id == CHOOSE i \in ScanAhead : \A j \in ScanAhead : i <= j
     IN /\ scan' = [scan EXCEPT
               !.cursor = id,
               !.yielded = Append(@, [link_id |-> id,
                                      chunks |-> vectorStore[id].chunks])]
        /\ input' = [link_id |-> id]
  /\ calls' = <<"scan.next">>
  /\ UNCHANGED <<dbLinks, vectorStore, ingest, retrieved, frontend>>

ScanEnd ==
  /\ scan.active /\ ScanAhead = {}
  /\ scan' = NoScan
  /\ calls' = <<"scan.end">>
  /\ input' = NoInput
  /\ UNCHANGED <<dbLinks, vectorStore, ingest, retrieved, frontend>>

(***************************************************************************)
(* SpecIngest: links are submitted, ingested, ingested again and deleted.  *)
(* SpecScan: the same while the store is scanned.                          *)
(***************************************************************************)
InitIngest == Init /\ root = "App" /\ token = Null /\ urlToken = Null

\* The steps of the pipeline and of its callers for the link ids given.
NextInvoked(ids) ==
  \/ \E id \in ids : Reinvoke(id)
  \/ \E id \in ids : PipelineBegin(id)
  \/ \E id \in ids, fetched \in FetchOutcomes : PipelineFetch(id, fetched)
  \/ \E id \in ids : PipelineChunk(id)
  \/ \E id \in ids, ok \in BOOLEAN : PipelineEmbed(id, ok)
  \/ \E id \in ids, ok \in BOOLEAN : PipelinePut(id, ok)
  \/ \E id \in ids : PipelineUnexpected(id)
  \/ \E id \in ids : DeleteLink(id)

NextPipeline(ids) ==
  \/ \E id \in ids : SubmitLink(id, "u1")
  \/ NextInvoked(ids)

NextIngest == NextPipeline(SubmittedIds)

SpecIngest == InitIngest /\ [][NextIngest]_vars

NextScan ==
  \/ NextPipeline(ScannedIds)
  \/ ScanStart(NoOwner)
  \/ ScanNext
  \/ ScanEnd

SpecScan == InitIngest /\ [][NextScan]_vars

(***************************************************************************)
(* The backend: the Retrieval Engine, section 4.5 of the specification.    *)
(* The query is embedded once (step 1); the score of a stored chunk is its *)
(* similarity to that query vector.                                        *)
(***************************************************************************)
\* A filter that discards the chunks with a score above the threshold.
SurvivingBelow(chunks, similarity_threshold) ==
  SelectSeq(chunks, LAMBDA c : c.score <= similarity_threshold)

\* Step 3: discard the chunks with a score below similarity_threshold.
Surviving(chunks, similarity_threshold) ==
  SelectSeq(chunks, LAMBDA c : c.score >= similarity_threshold)

\* Steps 2 to 4: the link ids with a chunk that is visible under
\* owner_filter and survives the threshold.
Groups(store, owner_filter, similarity_threshold) ==
  {id \in DOMAIN store :
     /\ Visible(store[id], owner_filter)
     /\ Surviving(store[id].chunks, similarity_threshold) # <<>>}

\* An aggregate that is the score of the weakest surviving chunk.
RECURSIVE AggregateWeakest(_)
AggregateWeakest(chunks) ==
  IF Len(chunks) = 1 THEN chunks[1].score
  ELSE LET rest == AggregateWeakest(Tail(chunks))
       IN IF chunks[1].score <= rest THEN chunks[1].score ELSE rest

\* Step 4: the aggregate score of a link, the maximum chunk score.
RECURSIVE Aggregate(_)
Aggregate(chunks) ==
  IF Len(chunks) = 1 THEN chunks[1].score
  ELSE LET rest == Aggregate(Tail(chunks))
       IN IF chunks[1].score >= rest THEN chunks[1].score ELSE rest

\* Step 5: the contributing chunks by descending score (a stable insertion
\* sort).
RECURSIVE InsertChunk(_, _)
InsertChunk(c, sorted) ==
  IF sorted = <<>> THEN <<c>>
  ELSE IF c.score > sorted[1].score THEN <<c>> \o sorted
       ELSE <<sorted[1]>> \o InsertChunk(c, Tail(sorted))

RECURSIVE ByDescendingScore(_)
ByDescendingScore(chunks) ==
  IF chunks = <<>> THEN <<>>
  ELSE InsertChunk(chunks[Len(chunks)],
                   ByDescendingScore(SubSeq(chunks, 1, Len(chunks) - 1)))

\* A SearchResult: the link, its aggregate score and contributing chunks.
EngineResult(links, store, id, similarity_threshold) ==
  LET surviving == Surviving(store[id].chunks, similarity_threshold)
  IN [link_id |-> id,
      created_at |-> links[id].created_at,
      score |-> Aggregate(surviving),
      chunks |-> ByDescendingScore(surviving)]

\* Step 6: result a is ranked before result b.
RankedBefore(a, b) ==
  \/ a.score > b.score
  \/ a.score = b.score /\ a.created_at >= b.created_at

RECURSIVE Ranked(_)
Ranked(results) ==
  IF results = {} THEN <<>>
  ELSE LET first == CHOOSE a \in results :
                      \A b \in results : RankedBefore(a, b)
       IN <<first>> \o Ranked(results \ {first})

\* Step 7: truncate to limit links.
Truncated(results, limit) == SubSeq(results, 1, Min(limit, Len(results)))

\* search(query_text, owner_filter, limit, similarity_threshold) for a query
\* that is not blank.
Search(links, store, owner_filter, limit, similarity_threshold) ==
  Truncated(
    Ranked({EngineResult(links, store, id, similarity_threshold) :
              id \in Groups(store, owner_filter, similarity_threshold)}),
    limit)

\* The values of the parameters of a search.
OwnerFilters == {NoOwner} \cup Owners
Limits == 1..MaxResults
Thresholds == 0..MaxScore

RetrievalSearch(owner_filter, limit, similarity_threshold) ==
  /\ ~retrieved.searched
  /\ retrieved' = [searched |-> TRUE, owner_filter |-> owner_filter,
                   limit |-> limit,
                   similarity_threshold |-> similarity_threshold,
                   results |-> Search(dbLinks, vectorStore, owner_filter,
                                      limit, similarity_threshold)]
  /\ calls' = <<"search">>
  /\ input' = NoInput
  /\ UNCHANGED <<dbLinks, vectorStore, ingest, scan, frontend>>

(***************************************************************************)
(* SpecSearch: searches of every store that ingestions can have left.      *)
(***************************************************************************)
\* The chunks a link can have in the store: at most two, of any scores.
StoredScores ==
  {<<>>} \cup {<<a>> : a \in 0..MaxScore}
         \cup {<<a, b>> : a, b \in 0..MaxScore}

ChunksScored(scores) ==
  [i \in 1..Len(scores) |-> StoredChunk(<<"a", "b">>[i], scores[i])]

\* The owner of the link id: the owners take turns.
OwnerOf(id) == IF id % 2 = 1 THEN "u1" ELSE "u2"

InitSearch ==
  /\ root = "App"
  /\ mounted = {}
  /\ token = Null
  /\ urlToken = Null
  /\ nav = "none"
  /\ app = AppConstructed
  /\ main = MainConstructed
  /\ auth = AuthConstructed(token)
  /\ searchBar = SearchBarConstructed
  /\ modal = ModalConstructed
  /\ sidebar = SidebarConstructed
  /\ axiosAuth = Undefined
  /\ pending = NoPending
  /\ linkForm = LinkFormConstructed
  /\ submitted = NoInput
  /\ view = NoView
  /\ linkList = LinkListConstructed
  /\ \E scores \in [SubmittedIds -> StoredScores] :
       /\ dbLinks = [id \in StoreIds |->
                       IF id \in SubmittedIds
                       THEN LinkRecord(OwnerOf(id), id,
                                       IF scores[id] = <<>> THEN "failed"
                                                            ELSE "ready")
                       ELSE Absent]
       /\ vectorStore = [id \in StoreIds |->
                           IF id \in SubmittedIds /\ scores[id] # <<>>
                           THEN StoreEntry(OwnerOf(id), ChunksScored(scores[id]))
                           ELSE NoEntry]
  /\ ingest = [id \in StoreIds |-> IdleJob]
  /\ scan = NoScan
  /\ retrieved = NoRetrieved
  /\ input = NoInput
  /\ calls = <<>>
  /\ sent = <<>>

NextSearch ==
  \E owner_filter \in OwnerFilters, limit \in Limits,
     similarity_threshold \in Thresholds :
    RetrievalSearch(owner_filter, limit, similarity_threshold)

SpecSearch == InitSearch /\ [][NextSearch]_vars

(***************************************************************************)
(* Properties.                                                             *)
(***************************************************************************)
\* A text made of whitespace only (the empty text included).
IsBlank(s) == \A i \in 1..Len(s) : s[i] \in Whitespace

\* The last step entered the function `name`.
Called(name) == \E i \in 1..Len(calls) : calls[i] = name

\* The search requests the last step sent.
SearchRequests == {sent[i] : i \in {j \in 1..Len(sent) : sent[j].url = "/link/search"}}

\* The user the root component holds as logged in.
CurrentUser == IF root = "App" THEN app.currentUser ELSE auth.user

\* C1: a submit of an empty or whitespace-only query sends no request: the
\* guards of SearchBar.handleSubmit, App.handleSearch and MainApp.handleSearch
\* all reject the query, searchLinks is not called, and the step leaves App's
\* state (searchResults, searchError, searchLoading among it) and the
\* requests in flight as they were.
C1_BlankQueryNeverSearches ==
  [][(/\ Len(calls') > 0
      /\ Head(calls') = "SearchBar.handleSubmit"
      /\ IsBlank(input'.query))
     => /\ SearchBarRejects(input'.query, FALSE)
        /\ AppSearchRejects(input'.query)
        /\ MainSearchRejects(input'.query)
        /\ calls' = <<"SearchBar.handleSubmit">>
        /\ sent' = <<>>
        /\ app'.searchResults = app.searchResults
        /\ app'.searchError = app.searchError
        /\ app'.searchLoading = app.searchLoading
        /\ app' = app
        /\ pending' = pending]_vars

\* C1: a whitespace-only query was submitted in App while the results of an
\* earlier search were shown.
C1_Witness ==
  /\ root = "App"
  /\ calls = <<"SearchBar.handleSubmit">>
  /\ input.query = <<" ">>
  /\ ~searchBar.isSearching
  /\ JsTruthy(app.searchResults)
  /\ sent = <<>>

\* C2: in App, after a failed search searchError is set, searchResults is
\* null and the 'Search Failed' panel is rendered; after a search that
\* resolved with an empty list searchError is null, searchResults is the
\* empty list and the 'No results found' panel is rendered; whenever one of
\* the two panels is rendered the state of the other outcome is absent.
C2_AppFailureDistinctFromNoResults ==
  root = "App" =>
    /\ Called("App.handleSearch.catch") =>
         /\ JsTruthy(app.searchError)
         /\ app.searchResults = Null
         /\ AppPanel = "search-error"
    /\ (Called("App.handleSearch.resolved") /\ input.results = <<>>) =>
         /\ app.searchError = Null
         /\ app.searchResults = Arr(<<>>)
         /\ AppPanel = "no-results"
    /\ AppPanel = "search-error" => app.searchResults = Null
    /\ AppPanel = "no-results" => app.searchError = Null

\* C2: a search of App failed with an error that has no message.
C2_Witness ==
  /\ root = "App"
  /\ Called("App.handleSearch.catch")
  /\ input.failure.message = Undefined
  /\ AppPanel = "search-error"

\* C3: in MainApp, after searchLinks rejected, the error message is shown and
\* the 'No results found' panel of SearchResults is not.
C3_MainFailureDistinctFromNoResults ==
  (root = "MainApp" /\ Called("MainApp.handleSearch.catch")) =>
    /\ MainRendersError
    /\ MainPanel # "no-results"

\* C4: every search request sent carries limit = 10 and
\* similarity_threshold = 0.7, and so does the request linksAPI.searchLinks
\* makes for the query of the search box when both arguments are omitted.
C4_SearchLimitAndThreshold ==
  /\ \A r \in SearchRequests :
       /\ r.params.limit = Num(10)
       /\ r.params.similarity_threshold = Rat(7, 10)
  /\ LET r == LinksAPI_searchLinks(token, searchBar.query, Undefined,
                                   Undefined, Undefined)
     IN /\ r.params.limit = Num(10)
        /\ r.params.similarity_threshold = Rat(7, 10)

\* C4: MainApp sent a search request through the searchLinks wrapper.
C4_Witness ==
  /\ root = "MainApp"
  /\ Called("searchLinks")
  /\ SearchRequests # {}
  /\ \E r \in SearchRequests : r.params.limit = Num(10)

\* C5: a search request sent while a user is logged in carries that user's
\* id as user_id, and a request sent while nobody is logged in carries no
\* user_id.
C5_SearchScopedToUser ==
  \A r \in SearchRequests :
    IF JsTruthy(CurrentUser)
    THEN /\ "user_id" \in DOMAIN r.params
         /\ r.params.user_id = CurrentUser.id
    ELSE "user_id" \notin DOMAIN r.params


\* C6: after the delete button of a link was clicked and the dialog
\* confirmed, App.handleDeleteLink has run and the link is no longer in App's
\* links.
C6_ConfirmedDeleteRemovesLink ==
  (root = "App" /\ Called("App.handleDeleteLink") /\ input.confirmed) =>
    \A i \in 1..Len(app.links) : app.links[i]._id # input.linkId

\* C7: the step of App.handleAddLink after createLink resolved makes links
\* the returned link followed by the links listed before, in their order;
\* the step after createLink failed leaves links unchanged and rethrows, so
\* that the catch of AddLinkModal.handleSubmit sets its submit error; both
\* leave loading false.
C7_AddLinkPrependsOrLeaves ==
  [][root = "App" =>
       /\ Called("App.handleAddLink.resolved")' =>
            /\ app'.links = <<input'.newLink>> \o app.links
            /\ app'.loading = FALSE
       /\ Called("App.handleAddLink.catch")' =>
            /\ app'.links = app.links
            /\ app'.loading = FALSE
            /\ Called("AddLinkModal.handleSubmit.catch")'
            /\ JsTruthy(modal'.errors.submit)]_vars

\* C7: createLink resolved in App while another link was listed.
C7_Witness ==
  /\ root = "App"
  /\ Called("App.handleAddLink.resolved")
  /\ Len(app.links) = 2
  /\ app.links[1] = input.newLink
  /\ app.links[2] # input.newLink
  /\ ~app.loading

\* The positions of the text that bound its comma-separated entries: before
\* its first character, each comma, and after its last character.
EntryBounds(text) ==
  {0, Len(text) + 1} \cup {i \in 1..Len(text) : text[i] = ","}

\* The entries <<a, b>> of the text, each the characters strictly between
\* two neighbouring bounds, that hold a character other than whitespace.
NonBlankEntries(text) ==
  {e \in EntryBounds(text) \X EntryBounds(text) :
     /\ e[1] < e[2]
     /\ \A m \in EntryBounds(text) : ~(e[1] < m /\ m < e[2])
     /\ \E i \in (e[1] + 1)..(e[2] - 1) : text[i] \notin Whitespace}

\* An entry from its first to its last character other than whitespace.
Stripped(text, e) ==
  LET inked == {i \in (e[1] + 1)..(e[2] - 1) : text[i] \notin Whitespace}
      first == CHOOSE i \in inked : \A j \in inked : i <= j
      last == CHOOSE i \in inked : \A j \in inked : j <= i
  IN SubSeq(text, first, last)

\* The non-blank entries of the text, stripped, in the order entered.
ExpectedTags(text) ==
  [n \in 1..Cardinality(NonBlankEntries(text)) |->
     LET e == CHOOSE x \in NonBlankEntries(text) :
                Cardinality({y \in NonBlankEntries(text) : y[1] < x[1]}) = n - 1
     IN Stripped(text, e)]

\* C8: the tags AddLinkModal.handleSubmit sends and the tags
\* LinkForm.handleSubmit hands to onSubmit are the comma-separated entries of
\* the tags field, trimmed, without the entries that are empty after
\* trimming, in the order entered and with duplicates kept; an empty field
\* gives the empty list.
C8_TagsAreTrimmedEntriesInOrder ==
  /\ (Called("AddLinkModal.handleSubmit") /\ sent # <<>>) =>
       /\ sent[1].params.tags = ExpectedTags(input.tags)
       /\ input.tags = <<>> => sent[1].params.tags = <<>>
  /\ Called("onSubmit") =>
       /\ submitted.tags = ExpectedTags(input.tags)
       /\ input.tags = <<>> => submitted.tags = <<>>

\* C8: the modal was submitted with the tags text "a, a".
C8_Witness ==
  /\ Called("AddLinkModal.handleSubmit")
  /\ sent # <<>>
  /\ input.tags = <<"a", ",", " ", "a">>
  /\ sent[1].params.tags = << <<"a">>, <<"a">> >>

\* The results the root component hands to SearchResults.
RootSearchResults ==
  IF root = "App" THEN app.searchResults.items ELSE main.searchResults.items

\* The number of matching chunks of a result.
ChunkCount(result) ==
  IF JsTruthy(result.matching_chunks) THEN Len(result.matching_chunks.items) ELSE 0

ShownScores ==
  {<<RootSearchResults[i].score, view.cards[i].score>> : i \in 1..Len(view.cards)}
  \cup UNION {{<<RootSearchResults[i].matching_chunks.items[j].score,
                 view.cards[i].chunks.previews[j].score>> :
                 j \in 1..Len(view.cards[i].chunks.previews)} :
              i \in 1..Len(view.cards)}

PipelineMoves ==
  {<<"pending", "processing">>, <<"processing", "ready">>,
   <<"processing", "failed">>}

\* Link id keeps its existence and changes its status in the step.
StatusMoved(id) ==
  /\ LinkExists(dbLinks[id]) /\ LinkExists(dbLinks'[id])
  /\ dbLinks'[id].status # dbLinks[id].status

PipelineStep(id) ==
  \/ PipelineBegin(id)
  \/ \E fetched \in FetchOutcomes : PipelineFetch(id, fetched)
  \/ PipelineChunk(id)
  \/ \E ok \in BOOLEAN : PipelineEmbed(id, ok)
  \/ \E ok \in BOOLEAN : PipelinePut(id, ok)

\* The links of either owner under a pipeline that keeps running: an
\* invocation that can take its next step eventually takes it.
NextIngestFair ==
  \/ \E id \in ScannedIds, owner \in Owners : SubmitLink(id, owner)
  \/ NextInvoked(ScannedIds)

SpecIngestFair ==
  /\ InitIngest /\ [][NextIngestFair]_vars
  /\ \A id \in ScannedIds : WF_vars(PipelineStep(id))

\* An invocation is under way on link id.
InFlight(id) == ingest[id].pc # "idle"

\* C12: every invocation of the pipeline ends, and when it has ended the
\* Link is ready or failed, never processing, whichever step failed.
C12_InvocationEndsTerminal ==
  /\ [](\A id \in StoreIds :
          (LinkExists(dbLinks[id]) /\ ~InFlight(id)) =>
            dbLinks[id].status \in Terminal)
  /\ \A id \in ScannedIds : InFlight(id) ~> ~InFlight(id)

\* An invocation has just returned after a failure of put_chunks, and the
\* Link is failed.
C12_Witness ==
  /\ calls = <<"IngestionPipeline.put_chunks", "IngestionPipeline.failed",
               "IngestionPipeline.return">>
  /\ LinkExists(dbLinks[input.link_id])
  /\ dbLinks[input.link_id].status = "failed"
  /\ ~InFlight(input.link_id)


\* C13: in every state the ingestions reach, a ready Link has at least one
\* stored chunk and a failed Link has none, so that a scan of the store,
\* and with it a search, meets no chunk of a failed link.
C13_StatusMatchesChunks ==
  \A id \in StoreIds :
    LinkExists(dbLinks[id]) =>
      /\ dbLinks[id].status = "ready" => vectorStore[id].chunks # <<>>
      /\ dbLinks[id].status = "failed" => vectorStore[id].chunks = <<>>


\* C15: a delete while an ingestion is in flight is not undone: when
\* delete_link(id) came before the put_chunks(id) of the pipeline, the store
\* holds no chunks for id after both, so no later scan yields the link.
C15_DeletedLinkStaysEmpty ==
  \A id \in StoreIds :
    dbLinks[id] = Vanished => vectorStore[id].chunks = <<>>

\* The pipeline has persisted the chunks of a link that was deleted while
\* its ingestion was in flight, and has returned.
C15_Witness ==
  /\ calls = <<"IngestionPipeline.put_chunks", "IngestionPipeline.return">>
  /\ dbLinks[input.link_id] = Vanished
  /\ vectorStore[input.link_id].chunks = <<>>
  /\ ~InFlight(input.link_id)

PassingScores(id) ==
  {vectorStore[id].chunks[i].score : i \in
     {k \in 1..Len(vectorStore[id].chunks) :
        vectorStore[id].chunks[k].score >= retrieved.similarity_threshold}}

\* The links the search answered can return.
Candidates ==
  {id \in StoreIds : /\ Visible(vectorStore[id], retrieved.owner_filter)
                     /\ PassingScores(id) # {}}

\* C16: search ranks links by best evidence: the aggregate score of each
\* returned link is the maximum score among its chunks that pass the
\* threshold, the links are in descending order of aggregate score with
\* ties broken by the more recent created_at first, at most limit links are
\* returned, and a link left out ranks after every link returned.
C16_RankedByBestEvidence ==
  retrieved.searched =>
    LET results == retrieved.results
        returned == {results[i].link_id : i \in 1..Len(results)}
    IN /\ Len(results) <= retrieved.limit
       /\ \A i \in 1..Len(results) :
            /\ results[i].link_id \in Candidates
            /\ results[i].score \in PassingScores(results[i].link_id)
            /\ \A score \in PassingScores(results[i].link_id) :
                 score <= results[i].score
       /\ \A i, j \in 1..Len(results) :
            i < j =>
              \/ results[i].score > results[j].score
              \/ /\ results[i].score = results[j].score
                 /\ dbLinks[results[i].link_id].created_at
                      > dbLinks[results[j].link_id].created_at
       /\ \A id \in Candidates \ returned :
            /\ Len(results) = retrieved.limit
            /\ \A score \in PassingScores(id) :
                 \/ score < results[Len(results)].score
                 \/ /\ score = results[Len(results)].score
                    /\ dbLinks[id].created_at
                         < dbLinks[results[Len(results)].link_id].created_at

\* A search has returned two links of equal aggregate score, one of them
\* with a weaker chunk that passed the threshold too.
C16_Witness ==
  /\ retrieved.searched
  /\ Len(retrieved.results) = 2
  /\ retrieved.results[1].score = retrieved.results[2].score
  /\ \E i \in 1..2 : Cardinality(PassingScores(retrieved.results[i].link_id)) = 2

\* C17: for the same owner filter, limit and store, a search with a higher
\* similarity_threshold returns no more links than the search answered.
C17_ThresholdMonotone ==
  retrieved.searched =>
    \A higher \in Thresholds :
      higher >= retrieved.similarity_threshold =>
        Len(Search(dbLinks, vectorStore, retrieved.owner_filter,
                   retrieved.limit, higher)) <= Len(retrieved.results)

\* A search has returned links of which a higher threshold returns fewer.
C17_Witness ==
  /\ retrieved.searched
  /\ \E higher \in Thresholds :
       /\ higher > retrieved.similarity_threshold
       /\ Len(Search(dbLinks, vectorStore, retrieved.owner_filter,
                     retrieved.limit, higher)) < Len(retrieved.results)


(***************************************************************************)
(* Properties of the session and of the requests in flight.                *)
(***************************************************************************)
\* C18: for a visitor without a token whose GET /user/me is answered 401,
\* the step of checkAuth that handles the rejection leaves currentUser null
\* and does not navigate or reload the page.
C18_UnauthenticatedVisitorStays ==
  [][(/\ root = "App" /\ pending.checkAuth /\ token = Null
      /\ calls' = <<"api.interceptors.response", "App.checkAuth">>
      /\ input'.failure.status = 401) =>
       (app'.currentUser = Null /\ nav' = nav)]_vars


\* C19: SearchBar keeps at most one search in flight: while its search is
\* pending isSearching is true, a submit is ignored (it sends nothing and
\* changes nothing), a search request is only sent when none is pending, and
\* the step in which the call settles, resolved or rejected, puts
\* isSearching back to false (a page load drops the search with the page).
C19_OneSearchInFlight ==
  [][/\ pending.search => searchBar.isSearching
     /\ (pending.search /\ Len(calls') > 0
         /\ Head(calls') = "SearchBar.handleSubmit") =>
          /\ calls' = <<"SearchBar.handleSubmit">>
          /\ sent' = <<>>
          /\ UNCHANGED <<searchBar, pending, app, main>>
     /\ (\E i \in 1..Len(sent') : sent'[i].url = "/link/search") =>
          ~pending.search
     /\ (pending.search /\ ~pending'.search
         /\ calls' # <<"window.location">>) =>
          /\ Called("SearchBar.handleSubmit.finally")'
          /\ ~searchBar'.isSearching]_vars

\* A submit was made while a search was pending, and nothing was sent.
C19_Witness ==
  /\ calls = <<"SearchBar.handleSubmit">>
  /\ pending.search
  /\ searchBar.isSearching
  /\ ~IsBlank(input.query)
  /\ sent = <<>>


\* C20: in MainApp, loading is true whenever a loadLinks request or a search
\* request is in flight, also when the two overlap.
C20_MainLoadingWhileInFlight ==
  (root = "MainApp" /\ "MainApp" \in mounted
   /\ (pending.fetchLinks \/ pending.search)) => main.loading


(***************************************************************************)
(* Properties of the links, the sidebar, the session and the modal.        *)
(***************************************************************************)
\* C21: in MainApp, the step of handleLinkAdded after createLink resolved
\* makes links the new link followed by every link listed when the request
\* completed, those included that a loadLinks or another add set while the
\* create request was in flight.
C21_MainAddKeepsLinks ==
  [][(root = "MainApp" /\ Called("MainApp.handleLinkAdded.resolved")') =>
       main'.links = <<input'.newLink>> \o main.links]_vars


C23_UserImpliesToken ==
  root = "MainApp" => (JsTruthy(auth.user) => JsTruthy(auth.token))


\* C24: in App, searchResults and searchError are never both set; once a
\* search that was started has settled (searchLoading false) exactly one of
\* them is set; and in every state exactly one of the SearchResults panel
\* and the welcome section is rendered.
C24_ResultsXorError ==
  root = "App" =>
    /\ ~(JsTruthy(app.searchResults) /\ JsTruthy(app.searchError))
    /\ (app.searchQuery # <<>> /\ ~app.searchLoading) =>
         (JsTruthy(app.searchResults) # JsTruthy(app.searchError))
    /\ AppRendersSearchResults # AppRendersWelcome

\* A search of App has failed and settled: the error is set, the results
\* are not, and the SearchResults panel is rendered.
C24_Witness ==
  /\ root = "App"
  /\ Called("App.handleSearch.catch")
  /\ ~app.searchLoading
  /\ JsTruthy(app.searchError)
  /\ ~JsTruthy(app.searchResults)
  /\ AppRendersSearchResults


\* The paths requested through the api client of links.js (AuthProvider
\* uses the global axios with absolute addresses).
ApiClientUrls == {"/link/links", "/link/search", "/user/me", "/user/logout"}

\* C25: a step that receives a response of status 401 through the api
\* client leaves no token in localStorage and still rejects to the caller,
\* whose catch runs; and every request sent through the api client carries
\* 'Authorization: Bearer <token>' exactly when a token is stored when it is
\* sent, so that no request after a 401 carries the header until a new token
\* is stored.
C25_UnauthorizedClearsToken ==
  [][/\ (/\ Len(calls') > 0
         /\ Head(calls') = "api.interceptors.response"
         /\ input'.failure.status = 401) =>
          /\ token' = Null
          /\ Len(calls') >= 2
     /\ \A i \in 1..Len(sent') :
          sent'[i].url \in ApiClientUrls =>
            /\ JsTruthy(token') => sent'[i].authorization = Bearer(token')
            /\ ~JsTruthy(token') => sent'[i].authorization = Undefined]_vars

\* A response of status 401 was received while a token was stored: the
\* token is gone from localStorage and the page is being redirected.
C25_Witness ==
  /\ calls = <<"api.interceptors.response", "MainApp.loadLinks.catch">>
  /\ input.failure.status = 401
  /\ JsTruthy(auth.token)
  /\ token = Null
  /\ nav = "/"


\* C26: AddLinkModal.handleSubmit closes the modal only on success: the step
\* after onSubmit resolved calls onClose and leaves the modal closed; the
\* step after onSubmit rejected does not call onClose, sets errors.submit,
\* keeps the form data entered and leaves the modal as open as it was, so
\* that in App a failed createLink leaves isAddModalOpen true.
C26_ModalClosesOnlyOnSuccess ==
  [][/\ Called("AddLinkModal.handleSubmit.resolved")' =>
          /\ Called("AddLinkModal.onClose")'
          /\ ~ModalIsOpen'
     /\ Called("AddLinkModal.handleSubmit.catch")' =>
          /\ ~Called("AddLinkModal.onClose")'
          /\ JsTruthy(modal'.errors.submit)
          /\ modal'.formData = modal.formData
          /\ ModalIsOpen' = ModalIsOpen
          /\ app'.isAddModalOpen = app.isAddModalOpen]_vars

\* In App, createLink failed while the modal was open: the modal is still
\* open, shows the submit error and holds the URL entered.
C26_Witness ==
  /\ root = "App"
  /\ Called("AddLinkModal.handleSubmit.catch")
  /\ app.isAddModalOpen
  /\ JsTruthy(modal.errors.submit)
  /\ modal.formData.url # <<>>

=============================================================================
